---- MODULE Spec2Model ----
(***************************************************************************)
(* Entity-resolution core of the legislative data pipeline: the text       *)
(* normaliser, the alias table of universities, the lexical and semantic   *)
(* matchers, the map-once standardisers and the bulletin deduplicator.     *)
(*                                                                         *)
(* A Python str is a sequence of characters.  A character is written as a  *)
(* one-letter string; a precomposed accented letter is the letter followed *)
(* by "^" ("o^" is U+00F3), and "^" alone is the combining acute accent    *)
(* U+0301 (Unicode category Mn).  A Python value that may or may not be a  *)
(* str is a record [isStr, s]; None and NaN are NotStr.                    *)
(***************************************************************************)
EXTENDS Integers, Sequences, FiniteSets, TLC

VARIABLES pc, fn, args, ret

vars == <<pc, fn, args, ret>>

\* ------------------------------------------------------------ values

Str(s) == [isStr |-> TRUE, s |-> s]

NotStr == [isStr |-> FALSE, s |-> <<>>]

None == "None"

NoRet == [label |-> None]

\* ------------------------------------------------------------ bounds

\* longest enumerated raw string
MaxLen == 3

\* ------------------------------------------------------------ str methods

\* str.lower() on the characters of the model's alphabet
LowerChar(c) ==
  CASE c = "U" -> "u"
    [] c = "V" -> "v"
    [] c = "P" -> "p"
    [] c = "C" -> "c"
    [] c = "M" -> "m"
    [] c = "J" -> "j"
    [] c = "A" -> "a"
    [] c = "E" -> "e"
    [] c = "U^" -> "u^"
    [] OTHER -> c

lower(s) == [i \in 1..Len(s) |-> LowerChar(s[i])]

IsSpace(c) == c = " "

RECURSIVE lstrip(_)
lstrip(s) == IF s # <<>> /\ IsSpace(Head(s)) THEN lstrip(Tail(s)) ELSE s

RECURSIVE rstrip(_)
rstrip(s) ==
  IF s # <<>> /\ IsSpace(s[Len(s)]) THEN rstrip(SubSeq(s, 1, Len(s) - 1)) ELSE s

strip(s) == lstrip(rstrip(s))

\* unicodedata.normalize('NFD', c) of one character: the canonical
\* decomposition of a precomposed letter is its base letter and the accent
NFDChar(c) ==
  CASE c = "u^" -> <<"u", "^">>
    [] c = "U^" -> <<"U", "^">>
    [] c = "o^" -> <<"o", "^">>
    [] c = "e^" -> <<"e", "^">>
    [] c = "a^" -> <<"a", "^">>
    [] c = "i^" -> <<"i", "^">>
    [] c = "n~" -> <<"n", "~">>
    [] OTHER -> <<c>>

RECURSIVE NFD(_)
NFD(s) == IF s = <<>> THEN <<>> ELSE NFDChar(Head(s)) \o NFD(Tail(s))

\* unicodedata.category(c) == 'Mn'
IsMn(c) == c \in {"^", "~"}

DropMn(s) == SelectSeq(s, LAMBDA c : ~IsMn(c))

\* the mutant coerces a value that is no str with str() instead of
\* returning ""
normalize_string_coerces(v) == DropMn(NFD(strip(lower(v.s))))

\* normalize_string: "" for a value that is no str, else lowercase, trim,
\* decompose, drop the combining marks
normalize_string(v) ==
  IF ~v.isStr THEN <<>> ELSE DropMn(NFD(strip(lower(v.s))))

\* ------------------------------------------------------------ alias table

\* the mutant table lists the variant 'uc' under two canonical labels
UNI_MAP_shared_variant ==
  <<[canonical |-> "Pontificia Universidad Católica de Chile",
     variants |-> <<<<"p", "u", "c">>, <<"u", "c">>>>],
    [canonical |-> "Universidad de Chile",
     variants |-> <<<<"u", "c", "h", "i", "l", "e">>, <<"u", "c">>>>]>>

\* UNI_MAP, in the order of the dict literal: canonical label, then its
\* variants as written in the source
UNI_MAP ==
  <<
    [canonical |-> "Pontificia Universidad Católica de Chile",
     variants |-> <<
       \* 'pontificia universidad catolica de chile'
       <<"p", "o", "n", "t", "i", "f", "i", "c", "i", "a", " ", "u", "n", "i", "v", "e", "r", "s", "i", "d", "a", "d", " ", "c", "a", "t", "o", "l", "i", "c", "a", " ", "d", "e", " ", "c", "h", "i", "l", "e">>,
       \* 'universidad catolica de chile'
       <<"u", "n", "i", "v", "e", "r", "s", "i", "d", "a", "d", " ", "c", "a", "t", "o", "l", "i", "c", "a", " ", "d", "e", " ", "c", "h", "i", "l", "e">>,
       \* 'puc'
       <<"p", "u", "c">>,
       \* 'universidad catolica'
       <<"u", "n", "i", "v", "e", "r", "s", "i", "d", "a", "d", " ", "c", "a", "t", "o", "l", "i", "c", "a">>,
       \* 'pontificia universidad catolica'
       <<"p", "o", "n", "t", "i", "f", "i", "c", "i", "a", " ", "u", "n", "i", "v", "e", "r", "s", "i", "d", "a", "d", " ", "c", "a", "t", "o", "l", "i", "c", "a">>,
       \* 'pontificia universidad catolica de santiago'
       <<"p", "o", "n", "t", "i", "f", "i", "c", "i", "a", " ", "u", "n", "i", "v", "e", "r", "s", "i", "d", "a", "d", " ", "c", "a", "t", "o", "l", "i", "c", "a", " ", "d", "e", " ", "s", "a", "n", "t", "i", "a", "g", "o">>,
       \* 'pontifica universidad catolica de chile'
       <<"p", "o", "n", "t", "i", "f", "i", "c", "a", " ", "u", "n", "i", "v", "e", "r", "s", "i", "d", "a", "d", " ", "c", "a", "t", "o", "l", "i", "c", "a", " ", "d", "e", " ", "c", "h", "i", "l", "e">>
     >>],
    [canonical |-> "Universidad de Chile",
     variants |-> <<
       \* 'universidad de chile'
       <<"u", "n", "i", "v", "e", "r", "s", "i", "d", "a", "d", " ", "d", "e", " ", "c", "h", "i", "l", "e">>,
       \* 'u de chile'
       <<"u", " ", "d", "e", " ", "c", "h", "i", "l", "e">>,
       \* 'uchile'
       <<"u", "c", "h", "i", "l", "e">>,
       \* 'escuela de teatro de la universidad de chile'
       <<"e", "s", "c", "u", "e", "l", "a", " ", "d", "e", " ", "t", "e", "a", "t", "r", "o", " ", "d", "e", " ", "l", "a", " ", "u", "n", "i", "v", "e", "r", "s", "i", "d", "a", "d", " ", "d", "e", " ", "c", "h", "i", "l", "e">>
     >>],
    [canonical |-> "Universidad de Santiago de Chile",
     variants |-> <<
       \* 'universidad de santiago de chile'
       <<"u", "n", "i", "v", "e", "r", "s", "i", "d", "a", "d", " ", "d", "e", " ", "s", "a", "n", "t", "i", "a", "g", "o", " ", "d", "e", " ", "c", "h", "i", "l", "e">>,
       \* 'universidad de santiago'
       <<"u", "n", "i", "v", "e", "r", "s", "i", "d", "a", "d", " ", "d", "e", " ", "s", "a", "n", "t", "i", "a", "g", "o">>,
       \* 'usach'
       <<"u", "s", "a", "c", "h">>,
       \* 'universidad tecnica del estado'
       <<"u", "n", "i", "v", "e", "r", "s", "i", "d", "a", "d", " ", "t", "e", "c", "n", "i", "c", "a", " ", "d", "e", "l", " ", "e", "s", "t", "a", "d", "o">>,
       \* 'ute'
       <<"u", "t", "e">>
     >>],
    [canonical |-> "Universidad de Concepción",
     variants |-> <<
       \* 'universidad de concepcion'
       <<"u", "n", "i", "v", "e", "r", "s", "i", "d", "a", "d", " ", "d", "e", " ", "c", "o", "n", "c", "e", "p", "c", "i", "o", "n">>,
       \* 'udec'
       <<"u", "d", "e", "c">>
     >>],
    [canonical |-> "Universidad Técnica Federico Santa María",
     variants |-> <<
       \* 'universidad tecnica federico santa maria'
       <<"u", "n", "i", "v", "e", "r", "s", "i", "d", "a", "d", " ", "t", "e", "c", "n", "i", "c", "a", " ", "f", "e", "d", "e", "r", "i", "c", "o", " ", "s", "a", "n", "t", "a", " ", "m", "a", "r", "i", "a">>,
       \* 'utfsm'
       <<"u", "t", "f", "s", "m">>,
       \* 'universidad federico santa maria'
       <<"u", "n", "i", "v", "e", "r", "s", "i", "d", "a", "d", " ", "f", "e", "d", "e", "r", "i", "c", "o", " ", "s", "a", "n", "t", "a", " ", "m", "a", "r", "i", "a">>
     >>],
    [canonical |-> "Universidad Austral de Chile",
     variants |-> <<
       \* 'universidad austral de chile'
       <<"u", "n", "i", "v", "e", "r", "s", "i", "d", "a", "d", " ", "a", "u", "s", "t", "r", "a", "l", " ", "d", "e", " ", "c", "h", "i", "l", "e">>,
       \* 'universidad austral de valdivia'
       <<"u", "n", "i", "v", "e", "r", "s", "i", "d", "a", "d", " ", "a", "u", "s", "t", "r", "a", "l", " ", "d", "e", " ", "v", "a", "l", "d", "i", "v", "i", "a">>
     >>],
    [canonical |-> "Universidad Adolfo Ibáñez",
     variants |-> <<
       \* 'universidad adolfo ibanez'
       <<"u", "n", "i", "v", "e", "r", "s", "i", "d", "a", "d", " ", "a", "d", "o", "l", "f", "o", " ", "i", "b", "a", "n", "e", "z">>,
       \* 'uai'
       <<"u", "a", "i">>
     >>],
    [canonical |-> "Universidad de Los Andes",
     variants |-> <<
       \* 'universidad de los andes (chile)'
       <<"u", "n", "i", "v", "e", "r", "s", "i", "d", "a", "d", " ", "d", "e", " ", "l", "o", "s", " ", "a", "n", "d", "e", "s", " ", "(", "c", "h", "i", "l", "e", ")">>,
       \* 'universidad de los andes'
       <<"u", "n", "i", "v", "e", "r", "s", "i", "d", "a", "d", " ", "d", "e", " ", "l", "o", "s", " ", "a", "n", "d", "e", "s">>
     >>],
    [canonical |-> "Universidad del Desarrollo",
     variants |-> <<
       \* 'universidad del desarrollo'
       <<"u", "n", "i", "v", "e", "r", "s", "i", "d", "a", "d", " ", "d", "e", "l", " ", "d", "e", "s", "a", "r", "r", "o", "l", "l", "o">>,
       \* 'udd'
       <<"u", "d", "d">>
     >>],
    [canonical |-> "Universidad Diego Portales",
     variants |-> <<
       \* 'universidad diego portales'
       <<"u", "n", "i", "v", "e", "r", "s", "i", "d", "a", "d", " ", "d", "i", "e", "g", "o", " ", "p", "o", "r", "t", "a", "l", "e", "s">>,
       \* 'udp'
       <<"u", "d", "p">>
     >>],
    [canonical |-> "Universidad Andrés Bello",
     variants |-> <<
       \* 'universidad andres bello'
       <<"u", "n", "i", "v", "e", "r", "s", "i", "d", "a", "d", " ", "a", "n", "d", "r", "e", "s", " ", "b", "e", "l", "l", "o">>,
       \* 'unab'
       <<"u", "n", "a", "b">>,
       \* 'nacional andres bello'
       <<"n", "a", "c", "i", "o", "n", "a", "l", " ", "a", "n", "d", "r", "e", "s", " ", "b", "e", "l", "l", "o">>
     >>],
    [canonical |-> "Universidad Católica del Norte",
     variants |-> <<
       \* 'universidad catolica del norte'
       <<"u", "n", "i", "v", "e", "r", "s", "i", "d", "a", "d", " ", "c", "a", "t", "o", "l", "i", "c", "a", " ", "d", "e", "l", " ", "n", "o", "r", "t", "e">>
     >>],
    [canonical |-> "Universidad de La Frontera",
     variants |-> <<
       \* 'universidad de la frontera'
       <<"u", "n", "i", "v", "e", "r", "s", "i", "d", "a", "d", " ", "d", "e", " ", "l", "a", " ", "f", "r", "o", "n", "t", "e", "r", "a">>,
       \* 'ufro'
       <<"u", "f", "r", "o">>
     >>],
    [canonical |-> "Universidad de Valparaíso",
     variants |-> <<
       \* 'universidad de valparaiso'
       <<"u", "n", "i", "v", "e", "r", "s", "i", "d", "a", "d", " ", "d", "e", " ", "v", "a", "l", "p", "a", "r", "a", "i", "s", "o">>,
       \* 'uv'
       <<"u", "v">>
     >>],
    [canonical |-> "Universidad de Artes, Ciencias y Comunicación (UNIACC)",
     variants |-> <<
       \* 'universidad de artes y las ciencias sociales'
       <<"u", "n", "i", "v", "e", "r", "s", "i", "d", "a", "d", " ", "d", "e", " ", "a", "r", "t", "e", "s", " ", "y", " ", "l", "a", "s", " ", "c", "i", "e", "n", "c", "i", "a", "s", " ", "s", "o", "c", "i", "a", "l", "e", "s">>,
       \* 'universidad de artes y ciencias de la comunicacion'
       <<"u", "n", "i", "v", "e", "r", "s", "i", "d", "a", "d", " ", "d", "e", " ", "a", "r", "t", "e", "s", " ", "y", " ", "c", "i", "e", "n", "c", "i", "a", "s", " ", "d", "e", " ", "l", "a", " ", "c", "o", "m", "u", "n", "i", "c", "a", "c", "i", "o", "n">>
     >>],
    [canonical |-> "Universidad Tecnológica de Chile INACAP",
     variants |-> <<
       \* 'inacap'
       <<"i", "n", "a", "c", "a", "p">>,
       \* 'instituto nacional de capacitacion'
       <<"i", "n", "s", "t", "i", "t", "u", "t", "o", " ", "n", "a", "c", "i", "o", "n", "a", "l", " ", "d", "e", " ", "c", "a", "p", "a", "c", "i", "t", "a", "c", "i", "o", "n">>,
       \* 'universidad tecnologica (inacap)'
       <<"u", "n", "i", "v", "e", "r", "s", "i", "d", "a", "d", " ", "t", "e", "c", "n", "o", "l", "o", "g", "i", "c", "a", " ", "(", "i", "n", "a", "c", "a", "p", ")">>,
       \* 'instituto profesional inacap'
       <<"i", "n", "s", "t", "i", "t", "u", "t", "o", " ", "p", "r", "o", "f", "e", "s", "i", "o", "n", "a", "l", " ", "i", "n", "a", "c", "a", "p">>,
       \* 'instituto inacap'
       <<"i", "n", "s", "t", "i", "t", "u", "t", "o", " ", "i", "n", "a", "c", "a", "p">>,
       \* 'universidad tecnológica'
       <<"u", "n", "i", "v", "e", "r", "s", "i", "d", "a", "d", " ", "t", "e", "c", "n", "o", "l", "o^", "g", "i", "c", "a">>
     >>],
    [canonical |-> "Instituto Profesional Agrario Adolfo Matthei",
     variants |-> <<
       \* 'instituto superior de agricultura adolfo matthei'
       <<"i", "n", "s", "t", "i", "t", "u", "t", "o", " ", "s", "u", "p", "e", "r", "i", "o", "r", " ", "d", "e", " ", "a", "g", "r", "i", "c", "u", "l", "t", "u", "r", "a", " ", "a", "d", "o", "l", "f", "o", " ", "m", "a", "t", "t", "h", "e", "i">>,
       \* 'instituto profesional agrario adolfo matthei'
       <<"i", "n", "s", "t", "i", "t", "u", "t", "o", " ", "p", "r", "o", "f", "e", "s", "i", "o", "n", "a", "l", " ", "a", "g", "r", "a", "r", "i", "o", " ", "a", "d", "o", "l", "f", "o", " ", "m", "a", "t", "t", "h", "e", "i">>
     >>],
    [canonical |-> "Instituto Profesional Duoc UC",
     variants |-> <<
       \* 'duoc uc'
       <<"d", "u", "o", "c", " ", "u", "c">>
     >>],
    [canonical |-> "Universidad Extranjera",
     variants |-> <<
       \* 'universidad de california'
       <<"u", "n", "i", "v", "e", "r", "s", "i", "d", "a", "d", " ", "d", "e", " ", "c", "a", "l", "i", "f", "o", "r", "n", "i", "a">>,
       \* 'georgetown'
       <<"g", "e", "o", "r", "g", "e", "t", "o", "w", "n">>,
       \* 'complutense de madrid'
       <<"c", "o", "m", "p", "l", "u", "t", "e", "n", "s", "e", " ", "d", "e", " ", "m", "a", "d", "r", "i", "d">>,
       \* 'universidad de cuenca'
       <<"u", "n", "i", "v", "e", "r", "s", "i", "d", "a", "d", " ", "d", "e", " ", "c", "u", "e", "n", "c", "a">>,
       \* 'universitat basel'
       <<"u", "n", "i", "v", "e", "r", "s", "i", "t", "a", "t", " ", "b", "a", "s", "e", "l">>,
       \* 'universidad de bilbao-espana'
       <<"u", "n", "i", "v", "e", "r", "s", "i", "d", "a", "d", " ", "d", "e", " ", "b", "i", "l", "b", "a", "o", "-", "e", "s", "p", "a", "n", "a">>,
       \* 'universita degli studi di milano'
       <<"u", "n", "i", "v", "e", "r", "s", "i", "t", "a", " ", "d", "e", "g", "l", "i", " ", "s", "t", "u", "d", "i", " ", "d", "i", " ", "m", "i", "l", "a", "n", "o">>,
       \* 'instituto tecnico de estocolmo'
       <<"i", "n", "s", "t", "i", "t", "u", "t", "o", " ", "t", "e", "c", "n", "i", "c", "o", " ", "d", "e", " ", "e", "s", "t", "o", "c", "o", "l", "m", "o">>,
       \* 'universidad nacional autonoma de mexico'
       <<"u", "n", "i", "v", "e", "r", "s", "i", "d", "a", "d", " ", "n", "a", "c", "i", "o", "n", "a", "l", " ", "a", "u", "t", "o", "n", "o", "m", "a", " ", "d", "e", " ", "m", "e", "x", "i", "c", "o">>,
       \* 'escuela nacional de antropologia e historia de mexico'
       <<"e", "s", "c", "u", "e", "l", "a", " ", "n", "a", "c", "i", "o", "n", "a", "l", " ", "d", "e", " ", "a", "n", "t", "r", "o", "p", "o", "l", "o", "g", "i", "a", " ", "e", " ", "h", "i", "s", "t", "o", "r", "i", "a", " ", "d", "e", " ", "m", "e", "x", "i", "c", "o">>,
       \* 'universidad internacional de cataluna, espana'
       <<"u", "n", "i", "v", "e", "r", "s", "i", "d", "a", "d", " ", "i", "n", "t", "e", "r", "n", "a", "c", "i", "o", "n", "a", "l", " ", "d", "e", " ", "c", "a", "t", "a", "l", "u", "n", "a", ",", " ", "e", "s", "p", "a", "n", "a">>,
       \* 'universidad de heidelberg'
       <<"u", "n", "i", "v", "e", "r", "s", "i", "d", "a", "d", " ", "d", "e", " ", "h", "e", "i", "d", "e", "l", "b", "e", "r", "g">>,
       \* 'universidad mayor de san simon (umss)'
       <<"u", "n", "i", "v", "e", "r", "s", "i", "d", "a", "d", " ", "m", "a", "y", "o", "r", " ", "d", "e", " ", "s", "a", "n", " ", "s", "i", "m", "o", "n", " ", "(", "u", "m", "s", "s", ")">>,
       \* 'madrid, espana'
       <<"m", "a", "d", "r", "i", "d", ",", " ", "e", "s", "p", "a", "n", "a">>,
       \* 'cochabamba, bolivia'
       <<"c", "o", "c", "h", "a", "b", "a", "m", "b", "a", ",", " ", "b", "o", "l", "i", "v", "i", "a">>,
       \* 'chicago, estados unidos'
       <<"c", "h", "i", "c", "a", "g", "o", ",", " ", "e", "s", "t", "a", "d", "o", "s", " ", "u", "n", "i", "d", "o", "s">>,
       \* 'francia'
       <<"f", "r", "a", "n", "c", "i", "a">>,
       \* 'malmo, suecia'
       <<"m", "a", "l", "m", "o", ",", " ", "s", "u", "e", "c", "i", "a">>,
       \* 'zurich, suiza'
       <<"z", "u", "r", "i", "c", "h", ",", " ", "s", "u", "i", "z", "a">>,
       \* 'buenos aires, argentina'
       <<"b", "u", "e", "n", "o", "s", " ", "a", "i", "r", "e", "s", ",", " ", "a", "r", "g", "e", "n", "t", "i", "n", "a">>,
       \* 'viena - hietzing, austria'
       <<"v", "i", "e", "n", "a", " ", "-", " ", "h", "i", "e", "t", "z", "i", "n", "g", ",", " ", "a", "u", "s", "t", "r", "i", "a">>,
       \* 'washington dc, estados unidos'
       <<"w", "a", "s", "h", "i", "n", "g", "t", "o", "n", " ", "d", "c", ",", " ", "e", "s", "t", "a", "d", "o", "s", " ", "u", "n", "i", "d", "o", "s">>
     >>],
    [canonical |-> "Desconocida",
     variants |-> <<
       \* 'nombre universidad'
       <<"n", "o", "m", "b", "r", "e", " ", "u", "n", "i", "v", "e", "r", "s", "i", "d", "a", "d">>,
       \* 'icce santiago'
       <<"i", "c", "c", "e", " ", "s", "a", "n", "t", "i", "a", "g", "o">>,
       \* 'nan'
       <<"n", "a", "n">>,
       \* ''
       <<>>
     >>]
  >>

\* the canonical list handed to the lexical stage
UNIVERSIDADES_CANONICAS ==
  <<
    "Pontificia Universidad Católica de Chile",
    "Universidad de Chile",
    "Universidad de Santiago de Chile",
    "Universidad de Concepción",
    "Universidad Católica de Valparaíso",
    "Universidad Adolfo Ibáñez",
    "Universidad Técnica Federico Santa María",
    "Universidad de Valparaíso",
    "Universidad Tecnológica de Chile INACAP",
    "Universidad de Los Andes",
    "Universidad del Desarrollo",
    "Universidad Alberto Hurtado",
    "Universidad Andrés Bello",
    "Universidad Autónoma de Chile",
    "Universidad Arturo Prat",
    "Universidad Austral de Chile",
    "Universidad de La Frontera",
    "Universidad de Magallanes",
    "Universidad de Talca",
    "Universidad Católica del Norte",
    "Universidad Católica del Maule",
    "Universidad Católica de Temuco",
    "Universidad Católica de la Santísima Concepción",
    "Universidad Bernardo O'Higgins",
    "Universidad Central de Chile",
    "Universidad de Antofagasta",
    "Universidad de Atacama",
    "Universidad de La Serena",
    "Universidad del Bío-Bío",
    "Universidad de Playa Ancha de Ciencias de la Educación",
    "Universidad de Tarapacá",
    "Universidad de Viña del Mar",
    "Universidad Diego Portales",
    "Universidad Finis Terrae",
    "Universidad Mayor",
    "Universidad Metropolitana de Ciencias de la Educación",
    "Universidad Miguel de Cervantes",
    "Universidad San Sebastián",
    "Instituto Profesional AIEP",
    "Instituto Profesional ARCOS",
    "Instituto Profesional de Chile",
    "Instituto Profesional Duoc UC",
    "Instituto Profesional Escuela de Contadores Auditores de Santiago",
    "Instituto Profesional Agrario Adolfo Matthei",
    "Instituto Nacional de Capacitación Profesional (INACAP)",
    "Instituto Profesional Iplacex",
    "Instituto Profesional Santo Tomás",
    "Instituto Profesional Virginio Gómez",
    "Instituto Profesional CIISA",
    "Instituto Profesional Galdámez",
    "Universidad de California",
    "Universidad de Cuenca",
    "Universidad de Georgetown",
    "Universidad Complutense de Madrid",
    "Universität Basel",
    "Universidad de Bilbao-España",
    "Università degli Studi di Milano",
    "Universidad Real",
    "Instituto Técnico de Estocolmo",
    "Universidad Nacional Autónoma de México",
    "Escuela Nacional de Antropología e Historia de México",
    "Universidad Internacional de Cataluña, España",
    "Universidad de Heidelberg",
    "Universidad Mayor de San Simón",
    "Universidad Católica Raúl Silva Henríquez",
    "Escuela de Comunicación Mónica Herrera",
    "Universidad Contemporánea de Arica",
    "Instituto Bancario Guillermo Subercaseaux",
    "Universidad Pedro de Valdivia",
    "Instituto Vicente Pérez Rosales",
    "Universidad de Los Lagos",
    "Instituto Nacional de Capacitación Profesional",
    "Universidad de La República",
    "Universidad Gabriela Mistral",
    "Universidad Mariano Egaña",
    "Universidad Católica de la Santísima Concepción",
    "Universidad Bolivariana",
    "Universidad de Artes, Ciencias y Comunicación (UNIACC)",
    "Universidad Academia de Humanismos Cristiano",
    "Instituto Profesional Diego Portales",
    "Universidad Iberoamericana de Ciencias y Tecnología",
    "Universidad de Antofagasta",
    "Universidad del Pacífico",
    "Universidad Extranjera"
  >>

\* ------------------------------------------------------------ rapidfuzz calls

Max(a, b) == IF a >= b THEN a ELSE b

\* process.extract(query, choices, scorer, processor, limit): the positions of
\* the `limit` best choices, highest first-pass score first and, among equal
\* scores, in list order.  scores[i] is the scorer's answer for choice i.
RECURSIVE extract(_, _, _)
extract(scores, taken, limit) ==
  LET rest == (1..Len(scores)) \ taken IN
  IF limit = 0 \/ rest = {} THEN <<>>
  ELSE LET best == CHOOSE i \in rest : \A j \in rest :
                     \/ scores[i] > scores[j]
                     \/ scores[i] = scores[j] /\ i <= j
       IN <<best>> \o extract(scores, taken \cup {best}, limit - 1)

\* the mutant keeps the last candidate that reaches the best score
RECURSIVE rerank_last_wins(_, _, _, _, _)
rerank_last_wins(mejores_candidatos, paso1, paso2, k, acc) ==
  IF k > Len(mejores_candidatos) THEN acc
  ELSE LET c == mejores_candidatos[k]
           score_final == Max(paso1[c], paso2[c])
       IN rerank_last_wins(mejores_candidatos, paso1, paso2, k + 1,
            IF score_final >= acc.mejor_score_final
            THEN [mejor_nombre |-> c, mejor_score_final |-> score_final]
            ELSE acc)

\* the mutant ranks by the first-pass score alone
RECURSIVE rerank_first_pass_only(_, _, _, _, _)
rerank_first_pass_only(mejores_candidatos, paso1, paso2, k, acc) ==
  IF k > Len(mejores_candidatos) THEN acc
  ELSE LET c == mejores_candidatos[k]
           score_final == paso1[c]
       IN rerank_first_pass_only(mejores_candidatos, paso1, paso2, k + 1,
            IF score_final > acc.mejor_score_final
            THEN [mejor_nombre |-> c, mejor_score_final |-> score_final]
            ELSE acc)

\* the re-ranking loop over the candidates of the first pass; mejor_nombre is
\* the position of the candidate in the choice list, 0 while it is None
RECURSIVE rerank(_, _, _, _, _)
rerank(mejores_candidatos, paso1, paso2, k, acc) ==
  IF k > Len(mejores_candidatos) THEN acc
  ELSE LET c == mejores_candidatos[k]
           score_final == Max(paso1[c], paso2[c])
       IN rerank(mejores_candidatos, paso1, paso2, k + 1,
            IF score_final > acc.mejor_score_final
            THEN [mejor_nombre |-> c, mejor_score_final |-> score_final]
            ELSE acc)

\* s.split(): the set of the words of s
RECURSIVE SplitWords(_, _)
SplitWords(s, cur) ==
  IF s = <<>> THEN (IF cur = <<>> THEN {} ELSE {cur})
  ELSE IF IsSpace(Head(s))
       THEN (IF cur = <<>> THEN {} ELSE {cur}) \cup SplitWords(Tail(s), <<>>)
       ELSE SplitWords(Tail(s), Append(cur, Head(s)))

\* the characters of normalised text in code-point order
CharOrder ==
  <<"'", ",", ".", "/", "a", "b", "c", "d", "e", "f", "g", "h", "i", "j", "k",
    "l", "m", "n", "o", "p", "q", "r", "s", "t", "u", "v", "w", "x", "y", "z">>

Ord(c) ==
  IF \E i \in DOMAIN CharOrder : CharOrder[i] = c
  THEN CHOOSE i \in DOMAIN CharOrder : CharOrder[i] = c
  ELSE 0

\* s < t as Python compares str
RECURSIVE Less(_, _)
Less(s, t) ==
  IF t = <<>> THEN FALSE
  ELSE IF s = <<>> THEN TRUE
  ELSE IF Head(s) = Head(t) THEN Less(Tail(s), Tail(t))
  ELSE Ord(Head(s)) < Ord(Head(t))

\* " ".join(sorted(words))
RECURSIVE JoinSorted(_)
JoinSorted(words) ==
  IF words = {} THEN <<>>
  ELSE LET w == CHOOSE x \in words : \A y \in words \ {x} : Less(x, y)
       IN IF words = {w} THEN w
          ELSE w \o <<" ">> \o JoinSorted(words \ {w})

IsSubstring(s, t) ==
  \E i \in 1..(Len(t) - Len(s) + 1) : SubSeq(t, i, i + Len(s) - 1) = s

\* fuzz.token_set_ratio(s1, s2): 0 when either text has no word; 100 when
\* the texts share a word and one has no other word; else a score below
\* 100 that depends on the edit distance (other)
token_set_ratio(s1, s2, other) ==
  LET tokens_a == SplitWords(s1, <<>>)
      tokens_b == SplitWords(s2, <<>>)
  IN IF tokens_a = {} \/ tokens_b = {} THEN 0
     ELSE IF tokens_a \cap tokens_b # {}
               /\ (tokens_a \ tokens_b = {} \/ tokens_b \ tokens_a = {})
     THEN 100
     ELSE other

\* fuzz.partial_token_set_ratio(s1, s2): 0 when either text has no word; 100
\* when the texts share a word; else the partial_ratio of the sorted
\* remaining words, which is 100 when the shorter text is contained in the
\* longer one and below 100 otherwise (other)
partial_token_set_ratio(s1, s2, other) ==
  LET tokens_a == SplitWords(s1, <<>>)
      tokens_b == SplitWords(s2, <<>>)
      diff_ab == JoinSorted(tokens_a \ tokens_b)
      diff_ba == JoinSorted(tokens_b \ tokens_a)
  IN IF tokens_a = {} \/ tokens_b = {} THEN 0
     ELSE IF tokens_a \cap tokens_b # {} THEN 100
     ELSE IF IsSubstring(diff_ab, diff_ba) \/ IsSubstring(diff_ba, diff_ab)
     THEN 100
     ELSE other

NameAt(choices, i) == IF i = 0 THEN None ELSE choices[i]

\* ------------------------------------------------------------ find_best_match_bcn

\* `not x` for a query that is None or a str
Falsy(v) == ~v.isStr \/ v.s = <<>>

\* the mutant reports 0 when the best score is below the threshold
find_best_match_bcn_zero(nombre_query, lista_choices, threshold, paso1, paso2) ==
  IF Falsy(nombre_query) \/ lista_choices = <<>>
  THEN [label |-> None, score |-> 0, extra |-> None, stages |-> <<>>]
  ELSE LET best == rerank(extract(paso1, {}, 5), paso1, paso2, 1,
                          [mejor_nombre |-> 0, mejor_score_final |-> 0])
       IN IF best.mejor_score_final >= threshold
          THEN [label |-> NameAt(lista_choices, best.mejor_nombre),
                score |-> best.mejor_score_final,
                extra |-> None, stages |-> <<"lexical">>]
          ELSE [label |-> None, score |-> 0,
                extra |-> None, stages |-> <<"lexical">>]

\* the mutant guards the empty choice list only
find_best_match_bcn_no_query_guard(nombre_query, lista_choices, threshold, paso1, paso2) ==
  IF lista_choices = <<>>
  THEN [label |-> None, score |-> 0, extra |-> None, stages |-> <<>>]
  ELSE LET best == rerank(extract(paso1, {}, 5), paso1, paso2, 1,
                          [mejor_nombre |-> 0, mejor_score_final |-> 0])
       IN IF best.mejor_score_final >= threshold
          THEN [label |-> NameAt(lista_choices, best.mejor_nombre),
                score |-> best.mejor_score_final,
                extra |-> None, stages |-> <<"lexical">>]
          ELSE [label |-> None, score |-> best.mejor_score_final,
                extra |-> None, stages |-> <<"lexical">>]

\* find_best_match_bcn.  paso1[i] and paso2[i] are what fuzz.token_set_ratio
\* and fuzz.partial_token_set_ratio answer for the normalised query and the
\* normalised choice i; stages lists the matching stages the call ran.
find_best_match_bcn(nombre_query, lista_choices, threshold, paso1, paso2) ==
  IF Falsy(nombre_query) \/ lista_choices = <<>>
  THEN [label |-> None, score |-> 0, extra |-> None, stages |-> <<>>]
  ELSE LET best == rerank(extract(paso1, {}, 5), paso1, paso2, 1,
                          [mejor_nombre |-> 0, mejor_score_final |-> 0])
       IN IF best.mejor_score_final >= threshold
          THEN [label |-> NameAt(lista_choices, best.mejor_nombre),
                score |-> best.mejor_score_final,
                extra |-> None, stages |-> <<"lexical">>]
          ELSE [label |-> None, score |-> best.mejor_score_final,
                extra |-> None, stages |-> <<"lexical">>]

\* ------------------------------------------------------------ _find_best_uni_match

\* the variants of every entry of the alias table
Variants(uni_map) ==
  UNION {{uni_map[i].variants[j] : j \in DOMAIN uni_map[i].variants} :
         i \in DOMAIN uni_map}

\* the last entry of the table that lists variant v
LastListing(uni_map, v) ==
  CHOOSE i \in DOMAIN uni_map :
    /\ \E j \in DOMAIN uni_map[i].variants : uni_map[i].variants[j] = v
    /\ \A k \in DOMAIN uni_map :
         (\E j \in DOMAIN uni_map[k].variants : uni_map[k].variants[j] = v)
           => k <= i

\* the loop that inverts the table: a later entry overwrites an earlier one
BuildReverseMap(uni_map) ==
  [v \in Variants(uni_map) |-> uni_map[LastListing(uni_map, v)].canonical]

reverse_map == BuildReverseMap(UNI_MAP)

\* dict.get(key)
Get(d, key) == IF key \in DOMAIN d THEN d[key] ELSE None

\* s.split(sep)[0]
RECURSIVE split_first(_, _)
split_first(s, sep) ==
  IF s = <<>> \/ Head(s) = sep THEN <<>>
  ELSE <<Head(s)>> \o split_first(Tail(s), sep)

\* the text the alias lookup is made with
primary_entry(raw_entry) == strip(split_first(split_first(raw_entry.s, ","), "("))

nan == <<"n", "a", "n">>

\* the mutant runs the lexical stage before the alias lookup
find_best_uni_match_fuzzy_first(raw_entry, choices, rmap, paso1, paso2) ==
  IF ~raw_entry.isStr
  THEN [label |-> "Desconocida", score |-> 0, extra |-> None, stages |-> <<>>,
                returned |-> <<"label">>]
  ELSE LET norm_entry == normalize_string(Str(primary_entry(raw_entry)))
           best == rerank(extract(paso1, {}, 5), paso1, paso2, 1,
                          [mejor_nombre |-> 0, mejor_score_final |-> 0])
       IN IF norm_entry = <<>> \/ norm_entry = nan
          THEN [label |-> "Desconocida", score |-> 0, extra |-> None,
                stages |-> <<>>,
                returned |-> <<"label">>]
          ELSE IF best.mejor_score_final >= 90
          THEN [label |-> NameAt(choices, best.mejor_nombre),
                score |-> best.mejor_score_final, extra |-> None,
                stages |-> <<"lexical">>,
                returned |-> <<"label">>]
          ELSE IF Get(rmap, norm_entry) # None
          THEN [label |-> Get(rmap, norm_entry), score |-> 0, extra |-> None,
                stages |-> <<"lexical", "alias">>,
                returned |-> <<"label">>]
          ELSE [label |-> "Otra / Desconocida",
                score |-> best.mejor_score_final, extra |-> None,
                stages |-> <<"lexical", "alias">>,
                returned |-> <<"label">>]

\* the mutant calls the scorers although the alias lookup hit
find_best_uni_match_scores_on_hit(raw_entry, choices, rmap, paso1, paso2) ==
  IF ~raw_entry.isStr
  THEN [label |-> "Desconocida", score |-> 0, extra |-> None, stages |-> <<>>,
        returned |-> <<"label">>]
  ELSE LET norm_entry == normalize_string(Str(primary_entry(raw_entry)))
           best == rerank(extract(paso1, {}, 5), paso1, paso2, 1,
                          [mejor_nombre |-> 0, mejor_score_final |-> 0])
       IN IF norm_entry = <<>> \/ norm_entry = nan
          THEN [label |-> "Desconocida", score |-> 0, extra |-> None,
                stages |-> <<>>, returned |-> <<"label">>]
          ELSE IF Get(rmap, norm_entry) # None
          THEN [label |-> Get(rmap, norm_entry),
                score |-> best.mejor_score_final, extra |-> None,
                stages |-> <<"alias", "lexical">>, returned |-> <<"label">>]
          ELSE IF best.mejor_score_final >= 90
          THEN [label |-> NameAt(choices, best.mejor_nombre),
                score |-> best.mejor_score_final, extra |-> None,
                stages |-> <<"alias", "lexical">>, returned |-> <<"label">>]
          ELSE [label |-> "Otra / Desconocida",
                score |-> best.mejor_score_final, extra |-> None,
                stages |-> <<"alias", "lexical">>, returned |-> <<"label">>]

\* _find_best_uni_match.  paso1[i] and paso2[i] are what fuzz.WRatio and
\* fuzz.partial_token_set_ratio answer for norm_entry and the normalised
\* choice i; score is mejor_score_final when the lexical stage ran.  The
\* function returns a str: returned names the one component the caller gets.
find_best_uni_match(raw_entry, choices, rmap, paso1, paso2) ==
  IF ~raw_entry.isStr
  THEN [label |-> "Desconocida", score |-> 0, extra |-> None, stages |-> <<>>,
                returned |-> <<"label">>]
  ELSE LET norm_entry == normalize_string(Str(primary_entry(raw_entry)))
       IN IF norm_entry = <<>> \/ norm_entry = nan
          THEN [label |-> "Desconocida", score |-> 0, extra |-> None,
                stages |-> <<>>,
                returned |-> <<"label">>]
          ELSE IF Get(rmap, norm_entry) # None
          THEN [label |-> Get(rmap, norm_entry), score |-> 0, extra |-> None,
                stages |-> <<"alias">>,
                returned |-> <<"label">>]
          ELSE LET best == rerank(extract(paso1, {}, 5), paso1, paso2, 1,
                                  [mejor_nombre |-> 0, mejor_score_final |-> 0])
               IN IF best.mejor_score_final >= 90
                  THEN [label |-> NameAt(choices, best.mejor_nombre),
                        score |-> best.mejor_score_final, extra |-> None,
                        stages |-> <<"alias", "lexical">>,
                returned |-> <<"label">>]
                  ELSE [label |-> "Otra / Desconocida",
                        score |-> best.mejor_score_final, extra |-> None,
                        stages |-> <<"alias", "lexical">>,
                returned |-> <<"label">>]

\* ------------------------------------------------------------ find_dependencia_fast

\* cosine_scores.argmax(): a position holding the largest similarity; which
\* of several equal ones is returned is left to the tensor library
ArgMax(cosine_scores) ==
  {i \in DOMAIN cosine_scores :
     \A j \in DOMAIN cosine_scores : cosine_scores[j] <= cosine_scores[i]}

\* the mutant reads the dependency code from the first row of the table
find_dependencia_fast_first_row(nombre_query, mineduc_df, cosine_scores, best_idx, threshold) ==
  IF ~nombre_query.isStr \/ strip(nombre_query.s) = <<>>
  THEN [label |-> None, score |-> 0, extra |-> None, stages |-> <<>>]
  ELSE LET best_score == cosine_scores[best_idx]
       IN IF best_score < threshold
          THEN [label |-> None, score |-> best_score * 100, extra |-> None,
                stages |-> <<"semantic">>]
          ELSE [label |-> mineduc_df[best_idx].colegio_merge_key,
                score |-> best_score * 100,
                extra |-> mineduc_df[1].COD_DEPE,
                stages |-> <<"semantic">>]

\* find_dependencia_fast.  Similarities, the threshold and the returned score
\* are counted in hundredths: cosine_scores[i] = 65 is a util.cos_sim of 0.65
\* between the encoded query and candidate row i, and a returned score of
\* 6500 is 65.0.  best_idx is what argmax answered.
find_dependencia_fast(nombre_query, mineduc_df, cosine_scores, best_idx, threshold) ==
  IF ~nombre_query.isStr \/ strip(nombre_query.s) = <<>>
  THEN [label |-> None, score |-> 0, extra |-> None, stages |-> <<>>]
  ELSE LET best_score == cosine_scores[best_idx]
       IN IF best_score < threshold
          THEN [label |-> None, score |-> best_score * 100, extra |-> None,
                stages |-> <<"semantic">>]
          ELSE [label |-> mineduc_df[best_idx].colegio_merge_key,
                score |-> best_score * 100,
                extra |-> mineduc_df[best_idx].COD_DEPE,
                stages |-> <<"semantic">>]

\* ------------------------------------------------------------ standardize_career

\* the keys of CAREER_MAP_REGEX in the order of the dict literal
CAREER_MAP_REGEX ==
  <<"Geografía", "Asistente Social", "Licenciatura en matemáticas", "Teología",
    "Biología Marina", "Marketing", "Ingeniería en Metalurgia",
    "Ingeniería Comercial", "Ingeniería Civil",
    "Ingeniería (Ejecución/Técnica)", "Derecho", "Salud",
    "Educación / Pedagogía", "Agronomía / Veterinaria",
    "Administración Pública", "Periodismo / Comunicaciones",
    "Arquitectura / Diseño", "Arte / Actuación", "Ciencias Sociales">>

derecho == <<"d", "e", "r", "e", "c", "h", "o">>

arte == <<"a", "r", "t", "e">>

historia_del_arte ==
  <<"h", "i", "s", "t", "o", "r", "i", "a", " ", "d", "e", "l", " ">> \o arte

\* s[i..] starts with the word w
StartsAt(s, i, w) == i + Len(w) - 1 <= Len(s) /\ SubSeq(s, i, i + Len(w) - 1) = w

Contains(s, w) == \E i \in 1..Len(s) : StartsAt(s, i, w)

historia == <<"h", "i", "s", "t", "o", "r", "i", "a">>

\* re.search(CAREER_MAP_REGEX[category], term), for the alternatives of the
\* patterns that the terms of the model can contain: 'derecho' of Derecho,
\* 'arte' of Arte / Actuación, 'historia' of Ciencias Sociales
re_search(category, term) ==
  CASE category = "Derecho" -> Contains(term, derecho)
    [] category = "Arte / Actuación" -> Contains(term, arte)
    [] category = "Ciencias Sociales" -> Contains(term, historia)
    [] OTHER -> FALSE

\* re.split(r',|;', s)
RECURSIVE re_split(_, _)
re_split(s, cur) ==
  IF s = <<>> THEN <<cur>>
  ELSE IF Head(s) \in {",", ";"} THEN <<cur>> \o re_split(Tail(s), <<>>)
  ELSE re_split(Tail(s), Append(cur, Head(s)))

NormAll(items) == [i \in 1..Len(items) |-> normalize_string(Str(items[i]))]

\* _clean_raw_career.  raw_entry.isList says whether ast.literal_eval makes a
\* list of the text, and raw_entry.literal is then the list of its items
clean_raw_career(raw_entry) ==
  IF ~raw_entry.isStr THEN <<>>
  ELSE IF raw_entry.isList THEN NormAll(raw_entry.literal)
  ELSE NormAll(SelectSeq(re_split(raw_entry.s, <<>>), LAMBDA e : strip(e) # <<>>))

\* the mutant takes the last category of the table whose pattern matches
FirstCategory_last_in_table(term) ==
  LET hits == {c \in DOMAIN CAREER_MAP_REGEX : re_search(CAREER_MAP_REGEX[c], term)}
  IN IF hits = {} THEN None
     ELSE CAREER_MAP_REGEX[CHOOSE c \in hits : \A d \in hits : c >= d]

\* the first category, in table order, whose pattern matches the term
FirstCategory(term) ==
  LET hits == {c \in DOMAIN CAREER_MAP_REGEX : re_search(CAREER_MAP_REGEX[c], term)}
  IN IF hits = {} THEN None
     ELSE CAREER_MAP_REGEX[CHOOSE c \in hits : \A d \in hits : c <= d]

InSeq(x, s) == \E i \in DOMAIN s : s[i] = x

\* the loop over the terms of one cleaned entry
RECURSIVE career_matches(_, _, _)
career_matches(cleaned_list, k, matches) ==
  IF k > Len(cleaned_list) THEN matches
  ELSE LET term == cleaned_list[k]
           category == IF term = <<>> THEN None ELSE FirstCategory(term)
       IN career_matches(cleaned_list, k + 1,
            IF category # None /\ ~InSeq(category, matches)
            THEN Append(matches, category) ELSE matches)

\* the body of the loop over the distinct raw values: the value of map_dict
map_career(raw_entry) ==
  LET matches == career_matches(clean_raw_career(raw_entry), 1, <<>>)
  IN [label |-> IF matches = <<>> THEN <<"Desconocida">> ELSE matches,
      score |-> 0, extra |-> None, stages |-> <<"regex">>]

\* ------------------------------------------------------------ map-once

\* the mutant leaves the missing values out, as value_counts() would
RECURSIVE unique_dropna(_, _, _)
unique_dropna(column, k, seen) ==
  IF k > Len(column) THEN seen
  ELSE unique_dropna(column, k + 1,
         IF InSeq(column[k], seen) \/ ~column[k].isStr
         THEN seen ELSE Append(seen, column[k]))

\* Series.unique(): the distinct values in order of first appearance
RECURSIVE unique(_, _, _)
unique(column, k, seen) ==
  IF k > Len(column) THEN seen
  ELSE unique(column, k + 1,
         IF InSeq(column[k], seen) THEN seen ELSE Append(seen, column[k]))

Range(s) == {s[i] : i \in DOMAIN s}

\* Series.map(map_dict): a cell whose value is no key of the dict is NaN (na)
SeriesMap(column, map_dict) ==
  [i \in 1..Len(column) |->
     IF column[i] \in DOMAIN map_dict
     THEN [na |-> FALSE, value |-> map_dict[column[i]]]
     ELSE [na |-> TRUE, value |-> None]]

\* the scores the two scorers give the choices: the first Len(hot) choices
\* get the pairs of hot, every other choice scores 0 under both
Paso(hot, which, n) == [i \in 1..n |-> IF i <= Len(hot) THEN hot[i][which] ELSE 0]

\* one resolution of a raw university value, as standardize_education calls
\* it; oracle gives the scorers' answers for each normalised entry
resolve_uni(raw_name, oracle) ==
  LET norm_entry == normalize_string(Str(primary_entry(raw_name)))
      hot == IF raw_name.isStr /\ norm_entry \in DOMAIN oracle
             THEN oracle[norm_entry] ELSE <<>>
  IN find_best_uni_match(raw_name, UNIVERSIDADES_CANONICAS, reverse_map,
       Paso(hot, 1, Len(UNIVERSIDADES_CANONICAS)),
       Paso(hot, 2, Len(UNIVERSIDADES_CANONICAS))).label

\* the keys of level_map
ensenanza_basica ==
  <<"e", "n", "s", "e", "n~", "a", "n", "z", "a", " ", "b", "a^", "s", "i", "c", "a">>

ensenanza_media ==
  <<"e", "n", "s", "e", "n~", "a", "n", "z", "a", " ", "m", "e", "d", "i", "a">>

educacion_universitaria ==
  <<"e", "d", "u", "c", "a", "c", "i", "o^", "n", " ",
    "u", "n", "i", "v", "e", "r", "s", "i", "t", "a", "r", "i", "a">>

magister == <<"m", "a", "g", "i^", "s", "t", "e", "r">>

doctor_a == <<"d", "o", "c", "t", "o", "r", "/", "a">>

doctorado == <<"d", "o", "c", "t", "o", "r", "a", "d", "o">>

level_map ==
  (ensenanza_basica :> "Básica") @@ (ensenanza_media :> "Media")
    @@ (educacion_universitaria :> "Universitaria") @@ (magister :> "Magíster")
    @@ (doctor_a :> "Doctorado") @@ (doctorado :> "Doctorado")

\* Series.str.lower(): a cell that holds no str becomes NaN
StrLower(column) ==
  [i \in 1..Len(column) |->
     IF column[i].isStr THEN Str(lower(column[i].s)) ELSE NotStr]

\* part A of standardize_education: the level through level_map, then
\* "Universitaria" where the level is missing and 'universidad' is not
educacion_nivel_clean(maximo_nivel_educativo, universidad) ==
  LET mapped == SeriesMap([i \in 1..Len(maximo_nivel_educativo) |->
                             StrLower(maximo_nivel_educativo)[i].s],
                          level_map)
  IN [i \in 1..Len(maximo_nivel_educativo) |->
        IF ~maximo_nivel_educativo[i].isStr \/ mapped[i].na
        THEN IF universidad[i].isStr
             THEN [na |-> FALSE, value |-> "Universitaria"]
             ELSE [na |-> TRUE, value |-> None]
        ELSE mapped[i]]

\* standardize_education.  Part A runs when the frame has the column
\* 'maximo_nivel_educativo' (has_nivel); part B builds the translation map
\* over the distinct values and broadcasts it to every row
standardize_education(has_nivel, maximo_nivel_educativo, column, oracle) ==
  LET unique_universities == unique(column, 1, <<>>)
      map_dict == [raw_name \in Range(unique_universities) |->
                     resolve_uni(raw_name, oracle)]
  IN [unique |-> unique_universities,
      clean |-> SeriesMap(column, map_dict),
      nivel_clean |-> IF has_nivel
                      THEN educacion_nivel_clean(maximo_nivel_educativo, column)
                      ELSE <<>>]

\* standardize_career: carrera_clean_list, then its first and second item
standardize_career(column) ==
  LET unique_careers_raw == unique(column, 1, <<>>)
      map_dict == [raw_entry \in Range(unique_careers_raw) |->
                     map_career(raw_entry).label]
      carrera_clean_list == SeriesMap(column, map_dict)
  IN [unique |-> unique_careers_raw,
      clean |-> carrera_clean_list,
      clean_1 |-> [i \in 1..Len(column) |->
                     IF ~carrera_clean_list[i].na
                          /\ Len(carrera_clean_list[i].value) > 0
                     THEN [na |-> FALSE, value |-> carrera_clean_list[i].value[1]]
                     ELSE [na |-> FALSE, value |-> "Desconocida"]],
      clean_2 |-> [i \in 1..Len(column) |->
                     IF ~carrera_clean_list[i].na
                          /\ Len(carrera_clean_list[i].value) > 1
                     THEN [na |-> FALSE, value |-> carrera_clean_list[i].value[2]]
                     ELSE [na |-> TRUE, value |-> None]]]

\* ------------------------------------------------------------ standardize_civil_status

conviviente == <<"c", "o", "n", "v", "i", "v", "i", "e", "n", "t", "e">>

casad == <<"c", "a", "s", "a", "d">>

divorciad == <<"d", "i", "v", "o", "r", "c", "i", "a", "d">>

separad == <<"s", "e", "p", "a", "r", "a", "d">>

viud == <<"v", "i", "u", "d">>

solter == <<"s", "o", "l", "t", "e", "r">>

padre_de == <<"p", "a", "d", "r", "e", " ", "d", "e">>

null == <<"n", "u", "l", "l">>

\* the conditions in order, each with the sub-strings its pattern searches
conditions ==
  <<{conviviente}, {casad}, {divorciad}, {separad}, {viud}, {solter},
    {padre_de, null}>>

\* the category of each condition; the last one is np.nan
choices ==
  <<[na |-> FALSE, value |-> "Conviviente Civil"],
    [na |-> FALSE, value |-> "Casado/a"],
    [na |-> FALSE, value |-> "Divorciado/a"],
    [na |-> FALSE, value |-> "Separado/a"],
    [na |-> FALSE, value |-> "Viudo/a"],
    [na |-> FALSE, value |-> "Soltero/a"],
    [na |-> TRUE, value |-> None]>>

\* norm_col.str.contains(pattern, na=False) for condition c
str_contains(norm, c) == \E w \in conditions[c] : Contains(norm, w)

\* np.select on one cell: the choice of the first condition that holds, else
\* the default np.nan
np_select(norm) ==
  IF \E c \in DOMAIN conditions : str_contains(norm, c)
  THEN choices[CHOOSE c \in DOMAIN conditions :
                 /\ str_contains(norm, c)
                 /\ \A d \in 1..(c - 1) : ~str_contains(norm, d)]
  ELSE [na |-> TRUE, value |-> None]

\* standardize_civil_status.  choices and default mix str and float, and
\* what np.select makes of that depends on the installed numpy
\* (promotes_to_str): either it finds no common dtype and raises TypeError,
\* or it promotes every choice to a str array, where np.nan is the text
\* 'nan', which fillna('Desconocido') leaves as it is
standardize_civil_status(status_series, promotes_to_str) ==
  LET norm_col == [i \in 1..Len(status_series) |->
                     normalize_string(status_series[i])]
      clean_series == [i \in 1..Len(status_series) |->
                         IF np_select(norm_col[i]).na
                         THEN [na |-> FALSE, value |-> "nan"]
                         ELSE np_select(norm_col[i])]
  IN IF promotes_to_str
     THEN [raised |-> FALSE, clean |-> clean_series]
     ELSE [raised |-> TRUE, clean |-> <<>>]

\* ------------------------------------------------------------ load_all_bulletin_files

\* the loop over the files: a file that cannot be read is logged and skipped
RECURSIVE read_all(_, _, _)
read_all(bulletin_files, k, lista_df) ==
  IF k > Len(bulletin_files) THEN lista_df
  ELSE read_all(bulletin_files, k + 1,
         IF ~bulletin_files[k].ok THEN lista_df
         ELSE Append(lista_df, bulletin_files[k].rows))

\* pd.concat(lista_df, ignore_index=True)
RECURSIVE concat(_)
concat(lista_df) ==
  IF lista_df = <<>> THEN <<>> ELSE Head(lista_df) \o concat(Tail(lista_df))

\* the mutant keeps the best-scored record of each key
drop_duplicates_keep_best(df_full) ==
  LET kept == {i \in DOMAIN df_full :
                 \A j \in DOMAIN df_full :
                   df_full[j].boletin_id = df_full[i].boletin_id /\ j # i
                     => \/ df_full[j].score < df_full[i].score
                        \/ df_full[j].score = df_full[i].score /\ i < j}
      F[i \in 0..Len(df_full)] ==
        IF i = 0 THEN <<>>
        ELSE IF i \in kept THEN Append(F[i - 1], df_full[i]) ELSE F[i - 1]
  IN F[Len(df_full)]

\* the mutant drops nothing
drop_duplicates_noop(df_full) == df_full

\* df_full.drop_duplicates(subset=['boletin_id'], keep='first')
drop_duplicates(df_full) ==
  LET kept == {i \in DOMAIN df_full :
                 \A j \in 1..(i - 1) :
                   df_full[j].boletin_id # df_full[i].boletin_id}
      F[i \in 0..Len(df_full)] ==
        IF i = 0 THEN <<>>
        ELSE IF i \in kept THEN Append(F[i - 1], df_full[i]) ELSE F[i - 1]
  IN F[Len(df_full)]

\* load_all_bulletin_files: the files found, read, concatenated, deduplicated
load_all_bulletin_files(bulletin_files) ==
  LET lista_df == read_all(bulletin_files, 1, <<>>)
      df_full == concat(lista_df)
  IN IF bulletin_files = <<>> \/ lista_df = <<>>
     THEN [df_full |-> <<>>, df_clean |-> <<>>]
     ELSE [df_full |-> df_full, df_clean |-> drop_duplicates(df_full)]

\* ------------------------------------------------------------ inputs

\* most choices handed to find_best_match_bcn
MaxChoices == 6

\* most canonical universities the scorers find similar to one query
MaxSimilar == 2

\* most candidate rows of the school table
MaxSchools == 3

\* most terms of one raw career value
MaxTerms == 2

\* most rows of a column
MaxRows == 3

\* most records over all bulletin files
MaxRecords == 3

Alphabet == {"u", "v", "U", " ", "^", ","}

StringsUpTo(n) == UNION {[1..k -> Alphabet] : k \in 0..n}

madrid_espana ==
  <<"m", "a", "d", "r", "i", "d", ",", " ", "e", "s", "p", "a", "n", "a">>

\* values that are no str: None, and NaN, 42 and the list ['u'] with the text
\* str() gives each (normalize_string does not read it)
NonStrings ==
  {NotStr,
   [isStr |-> FALSE, s |-> <<"n", "a", "n">>],
   [isStr |-> FALSE, s |-> <<"4", "2">>],
   [isStr |-> FALSE, s |-> <<"[", "'", "u", "'", "]">>]}

NormInputs == NonStrings \cup {Str(s) : s \in StringsUpTo(MaxLen)}

Thresholds == {-1, 0, 70}

Queries == {NotStr, Str(<<>>), Str(<<"u">>)}

Names(n) == [i \in 1..n |-> "c" \o ToString(i)]

perez_juan_a ==
  <<"P", "e^", "r", "e", "z", ",", " ", "J", "u", "a", "n", " ", "A", ".">>

juan_perez == <<"J", "u", "a", "n", " ", "P", "e^", "r", "e", "z">>

ana_perez == <<"A", "n", "a", " ", "P", "e^", "r", "e", "z">>

\* the text of a choice that is given by name
ChoiceText == ("Juan Pérez" :> juan_perez) @@ ("Ana Pérez" :> ana_perez)

\* a query, a list of n names, a threshold, and the two scorers' answers; or
\* the query "Pérez, Juan A." against "Juan Pérez" and "Ana Pérez", with the
\* scorers' answers where the words of the texts do not fix them
BcnInputs(a) ==
  \/ \E n \in 0..MaxChoices, q \in Queries, t \in Thresholds :
       \E p1 \in [1..n -> {0, 69}], p2 \in [1..n -> {0, 70}] :
         a = [nombre_query |-> q, lista_choices |-> Names(n), threshold |-> t,
              paso1 |-> p1, paso2 |-> p2]
  \/ \E o1 \in [1..2 -> {0, 69, 83, 99}], o2 \in [1..2 -> {0, 77, 99}] :
       LET q == Str(perez_juan_a)
           l == <<"Juan Pérez", "Ana Pérez">>
       IN a = [nombre_query |-> q, lista_choices |-> l, threshold |-> 70,
               paso1 |-> [i \in 1..2 |->
                            token_set_ratio(normalize_string(q),
                              normalize_string(Str(ChoiceText[l[i]])), o1[i])],
               paso2 |-> [i \in 1..2 |->
                            partial_token_set_ratio(normalize_string(q),
                              normalize_string(Str(ChoiceText[l[i]])), o2[i])]]

PUC == <<"P", "U", "C">>

UniRaws ==
  {NotStr}
    \cup {Str(s) : s \in StringsUpTo(MaxLen) \cup Variants(UNI_MAP) \cup {PUC}}

UniPairs == {<<0, 0>>, <<0, 89>>, <<90, 0>>, <<90, 89>>}

\* a raw value and the scorers' answers for the choices similar to it
UniInputs(a) ==
  \E r \in UniRaws, h \in [1..MaxSimilar -> UniPairs] :
    a = [raw_entry |-> r, hot |-> h]

Schools(n) == [i \in 1..n |-> [colegio_merge_key |-> "c" \o ToString(i), COD_DEPE |-> i]]

\* a query, a school table of n rows, and the similarity of each row
DepInputs(a) ==
  \E n \in 1..MaxSchools, q \in Queries \cup {Str(<<" ">>)} :
    \E cs \in [1..n -> {64, 65, 66}] :
      a = [nombre_query |-> q, mineduc_df |-> Schools(n), cosine_scores |-> cs,
           threshold |-> 65]

Terms == {derecho, arte, historia_del_arte, <<" ">>, <<"u">>}

RECURSIVE Join(_)
Join(items) ==
  IF items = <<>> THEN <<>>
  ELSE IF Len(items) = 1 THEN items[1]
  ELSE items[1] \o <<",">> \o Join(Tail(items))

TermLists(n) == UNION {[1..k -> Terms] : k \in 0..n}

NotStrCareer == [isStr |-> FALSE, s |-> <<>>, isList |-> FALSE, literal |-> <<>>]

\* a raw career value: a comma-separated text, or the text of a list literal
\* (written here by its items; s is not read for it)
CareerRaws(n) ==
  {NotStrCareer}
    \cup {[isStr |-> TRUE, s |-> Join(l), isList |-> FALSE, literal |-> <<>>] :
            l \in TermLists(n)}
    \cup {[isStr |-> TRUE, s |-> <<"[", "]">>, isList |-> TRUE, literal |-> l] :
            l \in TermLists(n)}

EduVocab ==
  {NotStr, Str(<<"P", "U", "C">>), Str(<<"p", "u", "c">>), Str(madrid_espana),
   Str(<<"u", "u">>)}

\* the normalised entries of the vocabulary that reach the lexical stage
FuzzyEntries ==
  {normalize_string(Str(primary_entry(v))) : v \in EduVocab \ {NotStr}}
    \ (DOMAIN reverse_map \cup {<<>>, nan})

Columns(vocab, n) == UNION {[1..k -> vocab] : k \in 0..n}

\* a column and the scorers' answers for each entry that reaches them
NivelVocab == {NotStr, Str(<<"M", "a", "g", "i^", "s", "t", "e", "r">>), Str(<<"u">>)}

\* a frame without the level column: a 'universidad' column and the scorers'
\* answers for each entry that reaches them; or a frame with both columns
EduInputs(a) ==
  \/ \E c \in Columns(EduVocab, MaxRows), o \in [FuzzyEntries -> [1..1 -> UniPairs]] :
       a = [column |-> c, oracle |-> o, has_nivel |-> FALSE, nivel |-> <<>>]
  \/ \E c \in Columns({NotStr, Str(PUC)}, MaxRows) :
       \E n \in [1..Len(c) -> NivelVocab] :
         a = [column |-> c, oracle |-> [e \in FuzzyEntries |-> <<<<0, 0>>>>],
              has_nivel |-> TRUE, nivel |-> n]

CareerVocab ==
  {NotStrCareer,
   [isStr |-> TRUE, s |-> derecho, isList |-> FALSE, literal |-> <<>>],
   [isStr |-> TRUE, s |-> historia_del_arte, isList |-> FALSE, literal |-> <<>>],
   [isStr |-> TRUE, s |-> derecho \o <<",">> \o historia_del_arte \o <<";">> \o derecho,
    isList |-> FALSE, literal |-> <<>>],
   [isStr |-> TRUE, s |-> <<"[", "]">>, isList |-> TRUE, literal |-> <<arte, derecho>>],
   [isStr |-> TRUE, s |-> <<" ">>, isList |-> FALSE, literal |-> <<>>],
   [isStr |-> TRUE, s |-> <<"u">>, isList |-> FALSE, literal |-> <<>>]}

CareerInputs == {[column |-> c] : c \in Columns(CareerVocab, MaxRows)}

CivilVocab ==
  {NotStr, Str(<<>>), Str(<<"u">>), Str(<<"C", "a", "s", "a", "d", "a">>),
   Str(<<"v", "i", "u", "d", "o">>), Str(null),
   Str(<<"c", "a", "s", "a", "d", "a", " ", "c", "o", "n", "v", "i", "v", "i", "e", "n", "t", "e">>)}

CivilInputs == {[column |-> c] : c \in Columns(CivilVocab, MaxRows)}

Records == {[boletin_id |-> k, score |-> s] : k \in {7, 42}, s \in {80, 95}}

RecordLists(n) == UNION {[1..k -> Records] : k \in 0..n}

\* the boletines.csv files found: one or two, each readable or not; the
\* records of the readable ones are cut out of one list
FileLists ==
  {<<>>}
    \cup UNION {
      {<<[ok |-> a, rows |-> IF a THEN l ELSE <<>>]>>} \cup
      {<<[ok |-> a, rows |-> IF a THEN SubSeq(l, 1, k) ELSE <<>>],
         [ok |-> b, rows |-> IF b THEN SubSeq(l, k + 1, Len(l)) ELSE <<>>]>> :
         k \in 0..Len(l), b \in BOOLEAN} :
      l \in RecordLists(MaxRecords), a \in BOOLEAN}

\* ------------------------------------------------------------ specifications

\* normalize_string, and normalize_string of its own result
Normalize ==
  /\ pc = "ready" /\ fn = "normalize_string"
  /\ ret' = [out |-> normalize_string(args)]
  /\ pc' = "done"
  /\ UNCHANGED <<fn, args>>

NormalizeAgain ==
  /\ pc = "done" /\ fn = "normalize_string"
  /\ ret' = [out |-> ret.out, again |-> normalize_string(Str(ret.out))]
  /\ pc' = "again"
  /\ UNCHANGED <<fn, args>>

InitNorm ==
  /\ pc = "ready" /\ fn = "normalize_string"
  /\ args \in NormInputs
  /\ ret = NoRet

NextNorm == Normalize \/ NormalizeAgain

SpecNorm == InitNorm /\ [][NextNorm]_vars

\* one call of each matcher
CallBcn ==
  /\ pc = "ready" /\ fn = "find_best_match_bcn"
  /\ ret' = find_best_match_bcn(args.nombre_query, args.lista_choices,
                                args.threshold, args.paso1, args.paso2)
  /\ pc' = "done"
  /\ UNCHANGED <<fn, args>>

CallUni ==
  /\ pc = "ready" /\ fn = "_find_best_uni_match"
  /\ ret' = find_best_uni_match(args.raw_entry, UNIVERSIDADES_CANONICAS,
              reverse_map,
              Paso(args.hot, 1, Len(UNIVERSIDADES_CANONICAS)),
              Paso(args.hot, 2, Len(UNIVERSIDADES_CANONICAS)))
  /\ pc' = "done"
  /\ UNCHANGED <<fn, args>>

CallDep ==
  /\ pc = "ready" /\ fn = "find_dependencia_fast"
  /\ \E best_idx \in ArgMax(args.cosine_scores) :
       ret' = find_dependencia_fast(args.nombre_query, args.mineduc_df,
                args.cosine_scores, best_idx, args.threshold)
  /\ pc' = "done"
  /\ UNCHANGED <<fn, args>>

CallCareer ==
  /\ pc = "ready" /\ fn = "map_career"
  /\ ret' = map_career(args.raw_entry)
  /\ pc' = "done"
  /\ UNCHANGED <<fn, args>>

InitMatch ==
  /\ pc = "ready"
  /\ \/ fn = "find_best_match_bcn" /\ BcnInputs(args)
     \/ fn = "_find_best_uni_match" /\ UniInputs(args)
     \/ fn = "find_dependencia_fast" /\ DepInputs(args)
     \/ fn = "map_career"
          /\ args \in {[raw_entry |-> r] : r \in CareerRaws(MaxTerms)}
  /\ ret = NoRet

NextMatch == CallBcn \/ CallUni \/ CallDep \/ CallCareer

SpecMatch == InitMatch /\ [][NextMatch]_vars

\* the map-once standardisers, each over one column
StandardizeEducation ==
  /\ pc = "ready" /\ fn = "standardize_education"
  /\ ret' = standardize_education(args.has_nivel, args.nivel, args.column,
                                  args.oracle)
  /\ pc' = "done"
  /\ UNCHANGED <<fn, args>>

StandardizeCareer ==
  /\ pc = "ready" /\ fn = "standardize_career"
  /\ ret' = standardize_career(args.column)
  /\ pc' = "done"
  /\ UNCHANGED <<fn, args>>

StandardizeCivilStatus ==
  /\ pc = "ready" /\ fn = "standardize_civil_status"
  /\ \E promotes_to_str \in BOOLEAN :
       ret' = standardize_civil_status(args.column, promotes_to_str)
  /\ pc' = "done"
  /\ UNCHANGED <<fn, args>>

InitStd ==
  /\ pc = "ready"
  /\ \/ fn = "standardize_education" /\ EduInputs(args)
     \/ fn = "standardize_career" /\ args \in CareerInputs
     \/ fn = "standardize_civil_status" /\ args \in CivilInputs
  /\ ret = NoRet

NextStd == StandardizeEducation \/ StandardizeCareer \/ StandardizeCivilStatus

SpecStd == InitStd /\ [][NextStd]_vars

\* the bulletin loader
LoadAllBulletinFiles ==
  /\ pc = "ready" /\ fn = "load_all_bulletin_files"
  /\ ret' = load_all_bulletin_files(args)
  /\ pc' = "done"
  /\ UNCHANGED <<fn, args>>

InitDedup ==
  /\ pc = "ready" /\ fn = "load_all_bulletin_files"
  /\ args \in FileLists
  /\ ret = NoRet

NextDedup == LoadAllBulletinFiles

SpecDedup == InitDedup /\ [][NextDedup]_vars

\* ------------------------------------------------------------ process_votaciones_chunk

NaN == [na |-> TRUE, value |-> None]

Cell(x) == [na |-> FALSE, value |-> x]

\* tipo_votacion_series.str.contains('proyecto de ley') after astype(str) and
\* str.lower(), for the two kinds of vote the model has
IsProyectoDeLey(tipo) == tipo = "Proyecto de Ley"

\* \s*: the first position from i on that holds no blank
RECURSIVE SkipBlanks(_, _)
SkipBlanks(t, i) ==
  IF i <= Len(t) /\ IsSpace(t[i]) THEN SkipBlanks(t, i + 1) ELSE i

\* the text of a vote's description is written by its tokens: the word
\* Boletín with or without its accent, the letter N with or without its
\* ordinal sign, a run of digits, a hyphen, a blank, or another word
IsBoletin(c) == c \in {"Boletín", "Boletin"}

IsNumero(c) == c \in {"N°", "N"}

IsDigits(c) == c \in {"123", "456", "07"}

\* where the digits stand when Bolet[ií]n\s*N[°º]?\s*(\d+) matches from
\* position i, else 0
BoletinDigits(t, i) ==
  LET numero == SkipBlanks(t, i + 1)
      digits == SkipBlanks(t, numero + 1)
  IN IF /\ IsBoletin(t[i])
        /\ numero <= Len(t) /\ IsNumero(t[numero])
        /\ digits <= Len(t) /\ IsDigits(t[digits])
     THEN digits ELSE 0

\* ...(\d+-\d+) matches from position i: the digits are followed by a
\* hyphen and digits
HasSuffix(t, i) ==
  LET digits == BoletinDigits(t, i)
  IN /\ digits > 0 /\ digits + 2 <= Len(t)
     /\ t[digits + 1] = "-" /\ IsDigits(t[digits + 2])

\* Series.astype(str).str.extract(r"Bolet[ií]n\s*N[°º]?\s*(\d+-\d+)")[0] on
\* one cell: the group of the leftmost match, NaN without a match; a
\* missing description is the text 'nan'
extract_boletin_id(Descripcion) ==
  LET t == IF Descripcion.na THEN <<"nan">> ELSE Descripcion.value
      starts == {i \in DOMAIN t : HasSuffix(t, i)}
  IN IF starts = {} THEN NaN
     ELSE LET digits == BoletinDigits(t, CHOOSE i \in starts : \A j \in starts : i <= j)
          IN Cell(SubSeq(t, digits, digits + 2))

\* Series.astype(str).str.extract(r"Bolet[ií]n\s*N[°º]?\s*(\d+)")[0] on one
\* cell
extract_boletin_number(Descripcion) ==
  LET t == IF Descripcion.na THEN <<"nan">> ELSE Descripcion.value
      starts == {i \in DOMAIN t : BoletinDigits(t, i) > 0}
  IN IF starts = {} THEN NaN
     ELSE LET digits == BoletinDigits(t, CHOOSE i \in starts : \A j \in starts : i <= j)
          IN Cell(<<t[digits]>>)

\* process_votaciones_chunk.  A chunk says which of the columns
\* 'Tipo._value_1', 'OpcionVoto.Valor', 'OpcionVoto._value_1' and
\* 'Descripcion' it has, and its rows hold a cell for each; the result is
\* the rows of df_clean with their votacion_id, diputado_id, voto_valor and
\* boletin_id
process_votaciones_chunk(df_raw) ==
  LET df == IF df_raw.has_Tipo
            THEN SelectSeq(df_raw.rows, LAMBDA r : IsProyectoDeLey(r.Tipo))
            ELSE df_raw.rows
      voto_valor(r) == IF df_raw.has_Valor THEN r.Valor ELSE NaN
      boletin_id(r) == IF df_raw.has_Descripcion
                       THEN extract_boletin_id(r.Descripcion) ELSE NaN
      clean(r) == [votacion_id |-> r.Id, diputado_id |-> r.Diputado_Id,
                   voto_valor |-> voto_valor(r), boletin_id |-> boletin_id(r)]
      df_clean == [i \in 1..Len(df) |-> clean(df[i])]
  IN IF df_raw.has_Tipo /\ df = <<>> THEN <<>>
     ELSE IF ~df_raw.has_Valor /\ ~df_raw.has_value_1 THEN <<>>
     ELSE SelectSeq(df_clean,
            LAMBDA r : ~r.voto_valor.na /\ ~r.diputado_id.na /\ ~r.votacion_id.na)

\* most rows of a chunk of votes
MaxVotes == 2

VoteRows ==
  {[Tipo |-> t, Valor |-> v, value_1 |-> w, Id |-> i, Diputado_Id |-> Cell(9),
    Descripcion |-> NaN] :
     t \in {"Proyecto de Ley", "Proyecto de Acuerdo"},
     v \in {NaN, Cell("Afirmativo")}, w \in {NaN, Cell("En Contra")},
     i \in {NaN, Cell(1)}}

\* the chunks; the cells of a column the chunk does not have are NaN
Chunks ==
  {c \in [has_Tipo : BOOLEAN, has_Valor : BOOLEAN, has_value_1 : BOOLEAN,
          has_Descripcion : {FALSE},
          rows : UNION {[1..k -> VoteRows] : k \in 0..MaxVotes}] :
     \A i \in DOMAIN c.rows :
       /\ ~c.has_Valor => c.rows[i].Valor = NaN
       /\ ~c.has_value_1 => c.rows[i].value_1 = NaN
       /\ ~c.has_Tipo => c.rows[i].Tipo = "Proyecto de Ley"}

ProcessVotacionesChunk ==
  /\ pc = "ready" /\ fn = "process_votaciones_chunk"
  /\ ret' = [df_clean |-> process_votaciones_chunk(args)]
  /\ pc' = "done"
  /\ UNCHANGED <<fn, args>>

InitVotes ==
  /\ pc = "ready" /\ fn = "process_votaciones_chunk"
  /\ args \in Chunks
  /\ ret = NoRet

NextVotes == ProcessVotacionesChunk

SpecVotes == InitVotes /\ [][NextVotes]_vars

\* ------------------------------------------------------------ build_boletines_periodo

\* build_boletines_periodo up to the download: the bulletin numbers taken
\* from the descriptions of the 'Proyecto de Ley' rows of detalle.csv,
\* without the missing ones and without duplicates, and the numbers for
\* which get_boletin gave a record (senado says whether the service answers)
build_boletines_periodo(df_det, senado) ==
  LET rows == SelectSeq(df_det.rows, LAMBDA r : r.Tipo = "Proyecto de Ley")
      extracted == [i \in 1..Len(rows) |-> extract_boletin_number(rows[i].Descripcion)]
      found == SelectSeq(extracted, LAMBDA c : ~c.na)
      boletines == unique([i \in 1..Len(found) |-> found[i].value], 1, <<>>)
  IN [boletines |-> boletines,
      lista_boletines_data |-> IF senado THEN boletines ELSE <<>>]

Descripciones ==
  {NaN,
   Cell(<<"x">>),
   Cell(<<"Boletín", " ", "N°", " ", "123", "-", "07">>),
   Cell(<<"x", " ", "Boletin", "N", "456", "-", "07", " ", "x">>),
   Cell(<<"Boletín", " ", "N°", " ", "123">>)}

\* the rows of a detalle.csv: votes with their keys and vote value, of one
\* of two kinds, each with a description
DetalleRows ==
  {[Tipo |-> t, Valor |-> Cell("Afirmativo"), value_1 |-> NaN, Id |-> Cell(1),
    Diputado_Id |-> Cell(9), Descripcion |-> d] :
     t \in {"Proyecto de Ley", "Proyecto de Acuerdo"}, d \in Descripciones}

DetalleFiles ==
  [has_Tipo : {TRUE}, has_Valor : {TRUE}, has_value_1 : {FALSE},
   has_Descripcion : {TRUE},
   rows : UNION {[1..k -> DetalleRows] : k \in 0..MaxVotes}]

\* the extraction stage reads detalle.csv and downloads the bulletins
BuildBoletinesPeriodo ==
  /\ pc = "ready" /\ fn = "build_boletines_periodo"
  /\ \E senado \in BOOLEAN :
       ret' = [boletines |-> build_boletines_periodo(args, senado), df_clean |-> <<>>]
  /\ pc' = "extracted"
  /\ UNCHANGED <<fn, args>>

\* the processing stage reads the same detalle.csv
ProcessDetalle ==
  /\ pc = "extracted" /\ fn = "build_boletines_periodo"
  /\ ret' = [ret EXCEPT !.df_clean = process_votaciones_chunk(args)]
  /\ pc' = "done"
  /\ UNCHANGED <<fn, args>>

InitBoletines ==
  /\ pc = "ready" /\ fn = "build_boletines_periodo"
  /\ args \in DetalleFiles
  /\ ret = NoRet

NextBoletines == BuildBoletinesPeriodo \/ ProcessDetalle

SpecBoletines == InitBoletines /\ [][NextBoletines]_vars

\* ------------------------------------------------------------ standardize_location

JUNK_REGEX ==
  <<<<"c", "o", "m", "u", "n", "a", " ", "d", "e", " ">>,
    <<"r", "e", "g", "i", "o", "n", " ", "d", "e", " ">>,
    <<"p", "r", "o", "v", "i", "n", "c", "i", "a", " ", "d", "e", " ">>,
    <<"e", "x", " ", "o", "f", "i", "c", "i", "n", "a", " ", "s", "a", "l", "i", "t", "r", "e", "r", "a", " ">>,
    <<"s", "e", "d", "e", " ", "d", "e", " ">>>>

PAISES_LIST ==
  <<<<"e", "s", "p", "a", "n~", "a">>,
    <<"e", "s", "t", "a", "d", "o", "s", " ", "u", "n", "i", "d", "o", "s">>,
    <<"h", "o", "l", "a", "n", "d", "a">>,
    <<"b", "o", "l", "i", "v", "i", "a">>,
    <<"f", "r", "a", "n", "c", "i", "a">>,
    <<"s", "u", "e", "c", "i", "a">>,
    <<"s", "u", "i", "z", "a">>,
    <<"a", "r", "g", "e", "n", "t", "i", "n", "a">>,
    <<"a", "u", "s", "t", "r", "i", "a">>>>

Chile == <<"C", "h", "i", "l", "e">>

Desconocido == <<"D", "e", "s", "c", "o", "n", "o", "c", "i", "d", "o">>

santiago == <<"s", "a", "n", "t", "i", "a", "g", "o">>

\* the alternatives of an alternation that match text at position i
AlternativesAt(text, i, alternatives) ==
  {k \in DOMAIN alternatives : StartsAt(text, i, alternatives[k])}

Least(S) == CHOOSE x \in S : \A y \in S : x <= y

\* Series.str.extract(PAISES_REGEX): the leftmost match, and of the
\* alternatives that match there the first one listed; NaN without a match
str_extract(text, alternatives) ==
  LET at == {i \in 1..Len(text) : AlternativesAt(text, i, alternatives) # {}}
  IN IF at = {} THEN NaN
     ELSE Cell(alternatives[Least(AlternativesAt(text, Least(at), alternatives))])

\* Series.str.replace(regex, '', regex=True): every match is removed, left
\* to right
RECURSIVE str_replace(_, _)
str_replace(text, alternatives) ==
  IF text = <<>> THEN <<>>
  ELSE IF AlternativesAt(text, 1, alternatives) # {}
  THEN LET w == alternatives[Least(AlternativesAt(text, 1, alternatives))]
       IN str_replace(SubSeq(text, Len(w) + 1, Len(text)), alternatives)
  ELSE <<Head(text)>> \o str_replace(Tail(text), alternatives)

\* text.split(',')[0]
RECURSIVE first_field(_)
first_field(text) ==
  IF text = <<>> \/ Head(text) = "," THEN <<>>
  ELSE <<Head(text)>> \o first_field(Tail(text))

UpperChar(c) ==
  CASE c = "a" -> "A"
    [] c = "b" -> "B"
    [] c = "e" -> "E"
    [] c = "f" -> "F"
    [] c = "h" -> "H"
    [] c = "o" -> "O"
    [] c = "s" -> "S"
    [] OTHER -> c

\* str.capitalize()
capitalize(text) ==
  IF text = <<>> THEN <<>> ELSE <<UpperChar(Head(text))>> \o lower(Tail(text))

\* astype(str) of a cell: a missing value becomes the text 'nan'
astype_str(v) == IF v.isStr THEN v ELSE Str(nan)

\* standardize_location on one row: raw is the cell of 'lugar_nacimiento'
location_row(raw) ==
  LET text == normalize_string(astype_str(raw))
      norm == IF text \in {nan, <<>>} THEN NaN ELSE Cell(text)
      extracted == IF norm.na THEN NaN ELSE str_extract(norm.value, PAISES_LIST)
      pais_nac == IF extracted.na THEN Chile ELSE extracted.value
      clean == IF norm.na THEN NaN
               ELSE Cell(str_replace(str_replace(norm.value, JUNK_REGEX), PAISES_LIST))
      ciudad == IF clean.na THEN NaN ELSE Cell(strip(first_field(clean.value)))
      ciudad_nac == IF ciudad.na THEN NaN
                    ELSE IF Contains(ciudad.value, santiago) THEN Cell(capitalize(santiago))
                    ELSE Cell(capitalize(ciudad.value))
  IN IF ~raw.isStr
     THEN [ciudad_nac |-> Desconocido, pais_nac |-> Desconocido]
     ELSE [ciudad_nac |-> IF ciudad_nac.na THEN Desconocido ELSE ciudad_nac.value,
           pais_nac |-> capitalize(pais_nac)]

standardize_location(loc_series) ==
  [i \in 1..Len(loc_series) |-> location_row(loc_series[i])]

LocationVocab ==
  {NotStr, Str(<<>>), Str(nan),
   Str(<<"E", "s", "p", "a", "n~", "a">>),
   Str(<<"o", "r", "u", "r", "o", ",", " ", "b", "o", "l", "i", "v", "i", "a">>),
   Str(<<"c", "o", "m", "u", "n", "a", " ", "d", "e", " ", "a", "n", "c", "u", "d">>),
   Str(<<"s", "a", "n", "t", "i", "a", "g", "o", ",", " ", "s", "u", "i", "z", "a">>)}

LocationInputs == {[loc_series |-> c] : c \in Columns(LocationVocab, MaxRows)}

StandardizeLocation ==
  /\ pc = "ready" /\ fn = "standardize_location"
  /\ ret' = [rows |-> standardize_location(args.loc_series)]
  /\ pc' = "done"
  /\ UNCHANGED <<fn, args>>

InitLoc ==
  /\ pc = "ready" /\ fn = "standardize_location"
  /\ args \in LocationInputs
  /\ ret = NoRet

NextLoc == StandardizeLocation

SpecLoc == InitLoc /\ [][NextLoc]_vars

\* ------------------------------------------------------------ build_detalle_periodo

\* most years the legislative service is asked about
MaxYears == 2

\* most votes of one year
MaxDetalles == 2

\* what retornarVotacionDetalle does for one vote: the call or its
\* conversion raises ("error"), the service answers nothing and get_detalle
\* returns an empty frame ("empty"), or get_detalle returns the vote's rows
DetalleOutcomes == {"error", "empty", "ok"}

\* what retornarVotacionesXAnno does for one year: get_votaciones raises
\* ("error"), returns None or an empty frame ("none"), or returns the votes
\* of the year
YearOutcomes ==
  {[kind |-> k, votes |-> <<>>] : k \in {"error", "none"}}
    \cup {[kind |-> "votes", votes |-> v] :
            v \in UNION {[1..n -> DetalleOutcomes] : n \in 1..MaxDetalles}}

\* the inner loop over df_votaciones["Id"].unique(): a vote whose detail
\* raises is logged and skipped, every other frame is appended
RECURSIVE detalles_of_year(_, _, _, _)
detalles_of_year(year, votes, k, detalles_list) ==
  IF k > Len(votes) THEN detalles_list
  ELSE detalles_of_year(year, votes, k + 1,
         IF votes[k] = "error" THEN detalles_list
         ELSE IF votes[k] = "empty" THEN Append(detalles_list, <<>>)
         ELSE Append(detalles_list, <<[year |-> year, idx |-> k]>>))

\* the loop over range(int(star_year), int(end_year)): a year whose vote
\* list raises is logged and skipped, a year without votes is skipped
RECURSIVE detalles_of_years(_, _, _, _)
detalles_of_years(server, year, end_year, detalles_list) ==
  IF year >= end_year THEN detalles_list
  ELSE detalles_of_years(server, year + 1, end_year,
         IF server[year].kind = "votes"
         THEN detalles_of_year(year, server[year].votes, 1, detalles_list)
         ELSE detalles_list)

RECURSIVE Flatten(_)
Flatten(frames) ==
  IF frames = <<>> THEN <<>> ELSE Head(frames) \o Flatten(Tail(frames))

\* pd.concat(objs, ignore_index=True): ValueError('No objects to
\* concatenate') for an empty list
pd_concat(objs) ==
  IF objs = <<>> THEN [raised |-> "ValueError", table |-> <<>>]
  ELSE [raised |-> None, table |-> Flatten(objs)]

\* build_detalle_periodo: the client is built outside every try, so a WSDL
\* that cannot be loaded raises
build_detalle_periodo(client_ok, star_year, end_year, server) ==
  IF ~client_ok THEN [raised |-> "Exception", table |-> <<>>]
  ELSE pd_concat(detalles_of_years(server, star_year, end_year, <<>>))

DetalleInputs ==
  [client_ok : BOOLEAN, star_year : 1..2, end_year : 1..(MaxYears + 1),
   server : [1..MaxYears -> YearOutcomes]]

BuildDetallePeriodo ==
  /\ pc = "ready" /\ fn = "build_detalle_periodo"
  /\ ret' = build_detalle_periodo(args.client_ok, args.star_year,
                                  args.end_year, args.server)
  /\ pc' = "done"
  /\ UNCHANGED <<fn, args>>

InitDetalle ==
  /\ pc = "ready" /\ fn = "build_detalle_periodo"
  /\ args \in DetalleInputs
  /\ ret = NoRet

NextDetalle == BuildDetallePeriodo

SpecDetalle == InitDetalle /\ [][NextDetalle]_vars

\* ------------------------------------------------------------ create_age_features

\* oldest age, in years, between the two dates of a row
MaxAge == 112

bins == <<18, 29, 39, 49, 59, 69, 110>>

labels == <<"18-29", "30-39", "40-49", "50-59", "60-69", "70+">>

\* the mutant leaves the lowest edge out of the first interval
pd_cut_lowest_excluded(x) ==
  IF \E i \in DOMAIN labels : bins[i] < x /\ x <= bins[i + 1]
  THEN Cell(labels[CHOOSE i \in DOMAIN labels : bins[i] < x /\ x <= bins[i + 1]])
  ELSE NaN

\* pd.cut(x, bins, labels, right=True, include_lowest=True) on one value:
\* interval i is (bins[i], bins[i + 1]], and the first one includes bins[1]
pd_cut(x) ==
  IF x = bins[1] THEN Cell(labels[1])
  ELSE IF \E i \in DOMAIN labels : bins[i] < x /\ x <= bins[i + 1]
  THEN Cell(labels[CHOOSE i \in DOMAIN labels : bins[i] < x /\ x <= bins[i + 1]])
  ELSE NaN

\* total_seconds() / seconds_in_year, rounded, for a difference of whole
\* days: days / 365.25 is 4 * days / 1461, which is never half-way between
\* two integers, so rounding it is the floor of (8 * days + 1461) / 2922
edad_of_days(days) == (8 * days + 1461) \div 2922

\* create_age_features on one row.  A date that pd.to_datetime cannot read
\* is NaT, and so is the difference; edad is then <NA>
create_age_features(start_ok, birth_ok, days) ==
  LET edad == IF start_ok /\ birth_ok THEN Cell(edad_of_days(days)) ELSE NaN
      cut == IF edad.na THEN NaN ELSE pd_cut(edad.value)
  IN [edad |-> edad,
      rango_etario |-> IF cut.na THEN "Desconocido" ELSE cut.value]

\* the rows: both dates readable and so many days apart (the birth date may
\* be the later one), or a date that cannot be read
AgeInputs ==
  [start_ok : {TRUE}, birth_ok : {TRUE}, days : (0 - 366)..(MaxAge * 366)]
    \cup {[start_ok |-> a, birth_ok |-> b, days |-> 0] : a, b \in BOOLEAN}

CreateAgeFeatures ==
  /\ pc = "ready" /\ fn = "create_age_features"
  /\ ret' = create_age_features(args.start_ok, args.birth_ok, args.days)
  /\ pc' = "done"
  /\ UNCHANGED <<fn, args>>

InitAge ==
  /\ pc = "ready" /\ fn = "create_age_features"
  /\ args \in AgeInputs
  /\ ret = NoRet

NextAge == CreateAgeFeatures

SpecAge == InitAge /\ [][NextAge]_vars

\* ------------------------------------------------------------ extract_bio_data_llm

\* most tokens of a reply of the model
MaxReply == 4

\* a reply is a text over these tokens: the markdown fences (FENCE is
\* three backquotes), the brackets of JSON, a blank and a character x that
\* no JSON text has
ReplyTokens == {"FENCEjson", "FENCE", "{", "}", "[", "]", "x", " "}

Replies(n) == UNION {[1..k -> ReplyTokens] : k \in 0..n}

\* json.loads accepts the text: blanks apart, it is {} or [] or a list
\* holding one value
RECURSIVE IsJsonValue(_)
IsJsonValue(t) ==
  \/ t = <<"{", "}">>
  \/ /\ Len(t) >= 2 /\ t[1] = "[" /\ t[Len(t)] = "]"
     /\ Len(t) = 2 \/ IsJsonValue(SubSeq(t, 2, Len(t) - 1))

NoBlanks(t) == SelectSeq(t, LAMBDA c : ~IsSpace(c))

\* json.loads(json_string): the value, written by its tokens, or a
\* JSONDecodeError
json_loads(json_string) ==
  IF IsJsonValue(NoBlanks(json_string))
  THEN [raised |-> FALSE, value |-> NoBlanks(json_string)]
  ELSE [raised |-> TRUE, value |-> <<>>]

\* steps 3.2 and 3.3: trim, drop a leading FENCEjson and a trailing FENCE, and
\* drop what comes before the first '{'
clean_json(content) ==
  LET trimmed == strip(content)
      opened == IF trimmed # <<>> /\ Head(trimmed) = "FENCEjson"
                THEN strip(Tail(trimmed)) ELSE trimmed
      closed == IF opened # <<>> /\ opened[Len(opened)] = "FENCE"
                THEN strip(SubSeq(opened, 1, Len(opened) - 1)) ELSE opened
      found == {i \in DOMAIN closed : closed[i] = "{"}
  IN IF found = {} THEN closed
     ELSE SubSeq(closed, Least(found), Len(closed))

\* what extract_bio_data_llm answers without asking the model
Omitted == [value |-> None, called |-> FALSE, sent |-> 0]

\* the mutant sends a biography to the model however short it is
extract_bio_data_llm_any_length(client, texto_biografia, chat) ==
  IF ~client \/ ~texto_biografia.isStr THEN Omitted
  ELSE LET sent == IF texto_biografia.len < 4000 THEN texto_biografia.len ELSE 4000
           parsed == json_loads(clean_json(chat.content))
       IN IF chat.fails \/ parsed.raised
          THEN [value |-> None, called |-> TRUE, sent |-> sent]
          ELSE [value |-> parsed.value, called |-> TRUE, sent |-> sent]

\* extract_bio_data_llm.  client says whether there is a client; a text is
\* given by its length and by its length after strip(); chat is what
\* client.chat does: it raises, or it answers content.  sent is the number
\* of leading characters of the text in the user message
extract_bio_data_llm(client, texto_biografia, chat) ==
  IF ~client THEN Omitted
  ELSE IF ~texto_biografia.isStr \/ texto_biografia.stripped < 50 THEN Omitted
  ELSE LET sent == IF texto_biografia.len < 4000 THEN texto_biografia.len ELSE 4000
           parsed == json_loads(clean_json(chat.content))
       IN IF chat.fails \/ parsed.raised
          THEN [value |-> None, called |-> TRUE, sent |-> sent]
          ELSE [value |-> parsed.value, called |-> TRUE, sent |-> sent]

\* a value that is no str, and texts of a length around the two limits, with
\* or without a blank at each end
Biographies ==
  {[isStr |-> FALSE, len |-> 0, stripped |-> 0]}
    \cup {[isStr |-> TRUE, len |-> n + pad, stripped |-> n] :
            n \in {0, 49, 50, 3999, 4000, 4001}, pad \in {0, 2}}

Chats(n) ==
  {[fails |-> TRUE, content |-> <<>>]}
    \cup {[fails |-> FALSE, content |-> r] : r \in Replies(n)}

BioInputs(a) ==
  \/ \E t \in Biographies, c \in BOOLEAN :
       a = [client |-> c, texto_biografia |-> t, chat |-> [fails |-> TRUE, content |-> <<>>]]
  \/ \E n \in {50, 4001}, ch \in Chats(MaxReply) :
       a = [client |-> TRUE,
            texto_biografia |-> [isStr |-> TRUE, len |-> n, stripped |-> n],
            chat |-> ch]

ExtractBioDataLlm ==
  /\ pc = "ready" /\ fn = "extract_bio_data_llm"
  /\ ret' = extract_bio_data_llm(args.client, args.texto_biografia, args.chat)
  /\ pc' = "done"
  /\ UNCHANGED <<fn, args>>

InitBio ==
  /\ pc = "ready" /\ fn = "extract_bio_data_llm"
  /\ BioInputs(args)
  /\ ret = NoRet

NextBio == ExtractBioDataLlm

SpecBio == InitBio /\ [][NextBio]_vars

\* ------------------------------------------------------------ _extract_district_from_trajectory

\* most td.trayectoria_align cells of a page
MaxCells == 2

\* the text of a cell is written by its tokens: a year of four digits, a
\* hyphen or an en dash (written "--"), a blank, or a word of letters
IsYear(c) == c \in {"2014", "2018", "2022"}

IsDash(c) == c \in {"-", "--"}

IsWord(c) == c \in {"de", "Diputado"}

\* [A-Za-z]*: the first position from i on that holds no word
SkipWord(t, i) == IF i <= Len(t) /\ IsWord(t[i]) THEN i + 1 ELSE i

\* where the second year stands when (\d{4})\s*[--]\s*[A-Za-z]*\s*(\d{4})
\* matches from position i, else 0
PeriodoEnd(t, i) ==
  LET dash == SkipBlanks(t, i + 1)
      last == SkipBlanks(t, SkipWord(t, SkipBlanks(t, dash + 1)))
  IN IF /\ IsYear(t[i])
        /\ dash <= Len(t) /\ IsDash(t[dash])
        /\ last <= Len(t) /\ IsYear(t[last])
     THEN last ELSE 0

\* re.search of the period pattern in the text of the cell, and the
\* f-string made of its two groups; None without a match
periodo_encontrado(texto_cargo) ==
  LET starts == {i \in DOMAIN texto_cargo : PeriodoEnd(texto_cargo, i) > 0}
  IN IF starts = {} THEN None
     ELSE <<texto_cargo[Least(starts)],
            texto_cargo[PeriodoEnd(texto_cargo, Least(starts))]>>

\* case A: the first run of digits of the span that has the property
\* bcnbio:representingPlaceNamed; 0 stands for no span or no digits
distrito_of_span(td) == td.span

\* case B: the first run of digits of the first div that has 'Distrito' in
\* its text and digits in it
distrito_of_divs(td) ==
  LET hits == {k \in DOMAIN td.divs : td.divs[k].Distrito /\ td.divs[k].num > 0}
  IN IF hits = {} THEN 0 ELSE td.divs[Least(hits)].num

distrito_of_cell(td) ==
  IF distrito_of_span(td) > 0 THEN distrito_of_span(td) ELSE distrito_of_divs(td)

\* the mutant takes the district of a cell whatever its period is
RECURSIVE extract_district_any_period(_, _, _)
extract_district_any_period(cells, periodos_validos, k) ==
  IF k > Len(cells) THEN NaN
  ELSE IF periodo_encontrado(cells[k].texto_cargo) = None
  THEN extract_district_any_period(cells, periodos_validos, k + 1)
  ELSE IF distrito_of_cell(cells[k]) > 0 THEN Cell(distrito_of_cell(cells[k]))
  ELSE extract_district_any_period(cells, periodos_validos, k + 1)

\* _extract_district_from_trajectory: the loop over the cells in document
\* order, from cell k on; the None it returns is written as the missing
\* value
RECURSIVE extract_district_from_trajectory(_, _, _)
extract_district_from_trajectory(cells, periodos_validos, k) ==
  IF k > Len(cells) THEN NaN
  ELSE IF periodo_encontrado(cells[k].texto_cargo) = None
  THEN extract_district_from_trajectory(cells, periodos_validos, k + 1)
  ELSE IF ~InSeq(periodo_encontrado(cells[k].texto_cargo), periodos_validos)
  THEN extract_district_from_trajectory(cells, periodos_validos, k + 1)
  ELSE IF distrito_of_cell(cells[k]) > 0 THEN Cell(distrito_of_cell(cells[k]))
  ELSE extract_district_from_trajectory(cells, periodos_validos, k + 1)

\* the cells of the model: a text without period, with '2018 -- 2022' or
\* with '2014-de 2018'; no span, a span without digits or with 7 (0 or 7);
\* no div, a div with digits but without 'Distrito', or two 'Distrito' divs
\* of which the second has digits
TrajectoryCells ==
  [texto_cargo : {<<"Diputado">>,
                  <<"Diputado", " ", "2018", " ", "--", " ", "2022">>,
                  <<"2014", "-", "de", " ", "2018", " ", "2022">>},
   span : {0, 7},
   divs : {<<>>,
           <<[Distrito |-> FALSE, num |-> 3]>>,
           <<[Distrito |-> TRUE, num |-> 0], [Distrito |-> TRUE, num |-> 10]>>}]

PeriodLists ==
  {<<>>, <<<<"2018", "2022">>>>, <<<<"2014", "2018">>>>,
   <<<<"2014", "2018">>, <<"2018", "2022">>>>}

TrajectoryInputs ==
  [cells : Columns(TrajectoryCells, MaxCells), periodos_validos : PeriodLists]

ExtractDistrict ==
  /\ pc = "ready" /\ fn = "_extract_district_from_trajectory"
  /\ ret' = [distrito |->
               extract_district_from_trajectory(args.cells, args.periodos_validos, 1)]
  /\ pc' = "done"
  /\ UNCHANGED <<fn, args>>

InitDistrict ==
  /\ pc = "ready" /\ fn = "_extract_district_from_trajectory"
  /\ args \in TrajectoryInputs
  /\ ret = NoRet

NextDistrict == ExtractDistrict

SpecDistrict == InitDistrict /\ [][NextDistrict]_vars

\* ------------------------------------------------------------ scrape_bcn_list

\* most pages of the listing the server has
MaxPages == 3

\* what the server does for each page: the request fails with a
\* requests.RequestException (ok is FALSE), or it answers a page with so
\* many list items
Servers == [1..MaxPages -> [ok : BOOLEAN, items : 0..1] \ {[ok |-> FALSE, items |-> 1]}]

ScrapeInputs ==
  [pagina_inicial : 1..2, pagina_final : 0..MaxPages, server : Servers]

\* data = [] and the first value of range(pagina_inicial, pagina_final + 1)
ScrapeStart ==
  /\ pc = "ready" /\ fn = "scrape_bcn_list"
  /\ ret' = [n_pagina |-> args.pagina_inicial, requested |-> <<>>,
             data |-> <<>>, raised |-> None]
  /\ pc' = "loop"
  /\ UNCHANGED <<fn, args>>

\* the range is exhausted: return pd.DataFrame(data)
ScrapeRangeEnds ==
  /\ pc = "loop" /\ fn = "scrape_bcn_list"
  /\ ret.n_pagina > args.pagina_final
  /\ pc' = "done"
  /\ UNCHANGED <<fn, args, ret>>

\* fetch_html raises a RequestException: it is logged, the loop breaks and
\* pd.DataFrame(data) is returned
ScrapeFetchFails ==
  /\ pc = "loop" /\ fn = "scrape_bcn_list"
  /\ ret.n_pagina <= args.pagina_final
  /\ ~args.server[ret.n_pagina].ok
  /\ ret' = [ret EXCEPT !.requested = Append(@, ret.n_pagina)]
  /\ pc' = "done"
  /\ UNCHANGED <<fn, args>>

\* fetch_html returns (status_code, text, url) and 'text, url = ...' unpacks
\* it into two names: a ValueError, which 'except requests.RequestException'
\* does not catch, so it leaves scrape_bcn_list; the statements that parse
\* the page and extend data are never reached
ScrapeUnpackRaises ==
  /\ pc = "loop" /\ fn = "scrape_bcn_list"
  /\ ret.n_pagina <= args.pagina_final
  /\ args.server[ret.n_pagina].ok
  /\ ret' = [ret EXCEPT !.requested = Append(@, ret.n_pagina),
                        !.raised = "ValueError"]
  /\ pc' = "done"
  /\ UNCHANGED <<fn, args>>

InitScrape ==
  /\ pc = "ready" /\ fn = "scrape_bcn_list"
  /\ args \in ScrapeInputs
  /\ ret = NoRet

NextScrape ==
  ScrapeStart \/ ScrapeRangeEnds \/ ScrapeFetchFails \/ ScrapeUnpackRaises

SpecScrape == InitScrape /\ [][NextScrape]_vars

\* most variants of one entry of an enumerated alias table
MaxVariants == 2

VariantLists(n) == UNION {[1..k -> {<<"u">>, <<"v">>, <<"U">>}] : k \in 0..n}

\* alias tables: UNI_MAP itself, and the dicts of at most two entries
AliasTables ==
  {UNI_MAP, <<>>}
    \cup {<<[canonical |-> "A", variants |-> l]>> : l \in VariantLists(MaxVariants)}
    \cup {<<[canonical |-> c[1], variants |-> l], [canonical |-> c[2], variants |-> m]>> :
            c \in {<<"A", "B">>, <<"B", "A">>},
            l \in VariantLists(MaxVariants), m \in VariantLists(MaxVariants)}

\* the loop of standardize_education that inverts the alias table; it logs
\* nothing and raises nothing
BuildMap ==
  /\ pc = "ready" /\ fn = "reverse_map"
  /\ ret' = [reverse_map |-> BuildReverseMap(args), logged |-> <<>>]
  /\ pc' = "done"
  /\ UNCHANGED <<fn, args>>

InitAlias ==
  /\ pc = "ready" /\ fn = "reverse_map"
  /\ args \in AliasTables
  /\ ret = NoRet

NextAlias == BuildMap

SpecAlias == InitAlias /\ [][NextAlias]_vars

\* every operation of the model
Init ==
  \/ InitNorm \/ InitMatch \/ InitStd \/ InitDedup \/ InitAlias \/ InitVotes
  \/ InitScrape \/ InitLoc \/ InitDetalle \/ InitAge \/ InitBio
  \/ InitDistrict \/ InitBoletines

Next ==
  \/ NextNorm \/ NextMatch \/ NextStd \/ NextDedup \/ NextAlias \/ NextVotes
  \/ NextScrape \/ NextLoc \/ NextDetalle \/ NextAge \/ NextBio
  \/ NextDistrict \/ NextBoletines

Spec == Init /\ [][Next]_vars

\* ------------------------------------------------------------ claims

Done(f) == pc = "done" /\ fn = f

\* the canonical labels of the alias table that list variant v
Listing(v) ==
  {UNI_MAP[i].canonical : i \in {k \in DOMAIN UNI_MAP : v \in Range(UNI_MAP[k].variants)}}

\* C1: a raw university string whose normalised form is a variant of the
\* alias table resolves to the canonical label that lists the variant,
\* whatever the scorers answer.
C1_AliasPrecedence ==
  (/\ Done("_find_best_uni_match")
   /\ args.raw_entry.isStr
   /\ normalize_string(args.raw_entry) \in Variants(UNI_MAP))
    => ret.label \in Listing(normalize_string(args.raw_entry))

\* C2: normalising a normalised string changes nothing.
C2_Idempotent ==
  (fn = "normalize_string" /\ pc = "again") => ret.again = ret.out

\* C3: every row of universidad_clean and of carrera_clean_list holds what
\* resolving that row's own raw value gives.
C3_MapOnceEquivalence ==
  /\ Done("standardize_education") =>
       /\ Len(ret.clean) = Len(args.column)
       /\ \A i \in DOMAIN args.column :
            /\ ~ret.clean[i].na
            /\ ret.clean[i].value = resolve_uni(args.column[i], args.oracle)
  /\ Done("standardize_career") =>
       /\ Len(ret.clean) = Len(args.column)
       /\ \A i \in DOMAIN args.column :
            /\ ~ret.clean[i].na
            /\ ret.clean[i].value = map_career(args.column[i]).label

\* a column with a missing value and a repeated raw value that is resolved by
\* the lexical stage, and a career column with a repeated value
C3_Witness ==
  \/ /\ Done("standardize_education")
     /\ \E i, j, k \in DOMAIN args.column :
          /\ i < j /\ args.column[i] = args.column[j]
          /\ ~args.column[k].isStr
          /\ ret.clean[j].value = "Pontificia Universidad Católica de Chile"
          /\ args.column[j] = Str(madrid_espana)
     /\ Len(ret.unique) < Len(args.column)
  \/ /\ Done("standardize_career")
     /\ \E i, j \in DOMAIN args.column :
          /\ i < j /\ args.column[i] = args.column[j]
          /\ ret.clean[j].value = <<"Arte / Actuación", "Derecho">>

Keys(df) == {df[i].boletin_id : i \in DOMAIN df}

\* C4 as stated: the record kept for a key has the highest score of the key.
C4_KeepsBestScore ==
  Done("load_all_bulletin_files") =>
    \A i \in DOMAIN ret.df_clean : \A j \in DOMAIN ret.df_full :
      ret.df_full[j].boletin_id = ret.df_clean[i].boletin_id
        => ret.df_full[j].score <= ret.df_clean[i].score

\* C4 amended: the record kept for a key is the first record of that key in
\* the concatenated input, whatever its score.
C4_KeepsFirstRecord ==
  Done("load_all_bulletin_files") =>
    \A k \in Keys(ret.df_full) :
      LET first == CHOOSE i \in DOMAIN ret.df_full :
                     /\ ret.df_full[i].boletin_id = k
                     /\ \A j \in 1..(i - 1) : ret.df_full[j].boletin_id # k
      IN \E i \in DOMAIN ret.df_clean :
           /\ ret.df_clean[i] = ret.df_full[first]
           /\ \A j \in DOMAIN ret.df_clean :
                ret.df_clean[j].boletin_id = k => j = i

\* key 42 scored 80 then 95: the score-80 record is the one kept
C4_Witness ==
  /\ Done("load_all_bulletin_files")
  /\ \E i, j \in DOMAIN ret.df_full :
       /\ i < j
       /\ ret.df_full[i] = [boletin_id |-> 42, score |-> 80]
       /\ ret.df_full[j] = [boletin_id |-> 42, score |-> 95]
       /\ \A h \in 1..(i - 1) : ret.df_full[h].boletin_id # 42
  /\ [boletin_id |-> 42, score |-> 80] \in Range(ret.df_clean)
  /\ [boletin_id |-> 42, score |-> 95] \notin Range(ret.df_clean)

\* C5: after deduplication every key of the input is in exactly one output
\* record, and there are as many output records as distinct input keys.
C5_OneRecordPerKey ==
  Done("load_all_bulletin_files") =>
    /\ Keys(ret.df_clean) = Keys(ret.df_full)
    /\ \A i, j \in DOMAIN ret.df_clean :
         ret.df_clean[i].boletin_id = ret.df_clean[j].boletin_id => i = j
    /\ Len(ret.df_clean) = Cardinality(Keys(ret.df_full))

\* two keys, one of them repeated, read from two files
C5_Witness ==
  /\ Done("load_all_bulletin_files")
  /\ Len(args) = 2
  /\ Len(ret.df_full) > Len(ret.df_clean)
  /\ Len(ret.df_clean) = 2

IsPrefix(s, t) == Len(s) <= Len(t) /\ SubSeq(t, 1, Len(s)) = s

\* C6 as stated: every matcher starts with the alias lookup; university and
\* school matching go on to the lexical and then the semantic stage when the
\* lexical score is below its cutoff, name and career matching stop after the
\* lexical stage.
C6_CascadePerEntity ==
  pc = "done" =>
    /\ fn \in {"_find_best_uni_match", "find_dependencia_fast"} =>
         /\ IsPrefix(ret.stages, <<"alias", "lexical", "semantic">>)
         /\ (ret.stages # <<>> /\ ret.label \in {None, "Otra / Desconocida"})
              => ret.stages = <<"alias", "lexical", "semantic">>
    /\ fn \in {"find_best_match_bcn", "map_career"} =>
         IsPrefix(ret.stages, <<"alias", "lexical">>)

\* C6 amended: university matching runs the alias lookup and, on a miss, the
\* lexical stage, never a semantic one; school matching runs the semantic
\* stage alone; name matching runs the lexical stage alone; career matching
\* runs the regex table alone.
C6_StagesOfCode ==
  pc = "done" =>
    /\ fn = "_find_best_uni_match" =>
         LET norm_entry == normalize_string(Str(primary_entry(args.raw_entry)))
         IN ret.stages =
              IF ~args.raw_entry.isStr \/ norm_entry \in {<<>>, nan} THEN <<>>
              ELSE IF norm_entry \in DOMAIN reverse_map THEN <<"alias">>
              ELSE <<"alias", "lexical">>
    /\ fn = "find_dependencia_fast" =>
         ret.stages = IF ~args.nombre_query.isStr \/ strip(args.nombre_query.s) = <<>>
                      THEN <<>> ELSE <<"semantic">>
    /\ fn = "find_best_match_bcn" =>
         ret.stages = IF Falsy(args.nombre_query) \/ args.lista_choices = <<>>
                      THEN <<>> ELSE <<"lexical">>
    /\ fn = "map_career" => ret.stages = <<"regex">>

\* a university value that misses the alias table and scores below the
\* cutoff ends unmatched after the lexical stage
C6_Witness ==
  /\ Done("_find_best_uni_match")
  /\ ret.label = "Otra / Desconocida"
  /\ ret.score = 89
  /\ ret.stages = <<"alias", "lexical">>

\* C7: a best candidate scoring exactly the threshold is accepted and one
\* scoring one unit below is rejected, in each of the three matchers.
C7_InclusiveBoundary ==
  pc = "done" =>
    /\ (fn = "find_best_match_bcn" /\ ret.stages # <<>>) =>
         /\ ret.score = args.threshold => ret.label # None
         /\ ret.score = args.threshold - 1 => ret.label = None
    /\ (fn = "_find_best_uni_match" /\ ret.stages = <<"alias", "lexical">>) =>
         /\ ret.score = 90 => ret.label # "Otra / Desconocida"
         /\ ret.score = 89 => ret.label = "Otra / Desconocida"
    /\ (fn = "find_dependencia_fast" /\ ret.stages # <<>>) =>
         /\ ret.score = args.threshold * 100 => ret.label # None
         /\ ret.score = (args.threshold - 1) * 100 => ret.label = None

\* the candidates of the first pass and their combined scores
Top5 == extract(args.paso1, {}, 5)

Combined(c) == Max(args.paso1[c], args.paso2[c])

BestOf(top) ==
  CHOOSE b \in {Combined(top[k]) : k \in DOMAIN top} :
    \A k \in DOMAIN top : Combined(top[k]) <= b

BestCombined == BestOf(Top5)

C10_EmptyInputGuard ==
  (Done("find_best_match_bcn")
     /\ (Falsy(args.nombre_query) \/ args.lista_choices = <<>>))
    => ret.label = None /\ ret.score = 0 /\ ret.stages = <<>>

\* an empty query against choices that a scorer would rate 70, threshold 0
C10_Witness ==
  /\ Done("find_best_match_bcn")
  /\ args.nombre_query = Str(<<>>)
  /\ Len(args.lista_choices) >= 2
  /\ args.paso2[1] = 70
  /\ args.threshold = 0
  /\ ret.label = None /\ ret.score = 0

\* the call reaches the alias lookup (its entry is neither empty nor "nan")
\* and the lookup hits
AliasHit ==
  /\ args.raw_entry.isStr
  /\ normalize_string(Str(primary_entry(args.raw_entry))) \notin {<<>>, nan}
  /\ normalize_string(Str(primary_entry(args.raw_entry))) \in DOMAIN reverse_map

\* C11 as stated: on an alias hit the call ends with the canonical label, no
\* scorer runs, and a confidence of 100 is returned with the label.
C11_AliasHitConfidence ==
  (Done("_find_best_uni_match") /\ AliasHit) =>
    /\ ret.stages = <<"alias">>
    /\ ret.label = reverse_map[normalize_string(Str(primary_entry(args.raw_entry)))]
    /\ "score" \in Range(ret.returned)
    /\ ret.score = 100

\* C11 amended: on an alias hit the call ends with the canonical label and no
\* scorer runs; "PUC" resolves to "Pontificia Universidad Católica de Chile";
\* the label is all the function returns.
C11_AliasHitTerminal ==
  Done("_find_best_uni_match") =>
    /\ AliasHit =>
         /\ ret.stages = <<"alias">>
         /\ ret.label = reverse_map[normalize_string(Str(primary_entry(args.raw_entry)))]
         /\ ret.returned = <<"label">>
    /\ args.raw_entry = Str(PUC) =>
         /\ AliasHit
         /\ ret.label = "Pontificia Universidad Católica de Chile"

\* "PUC" resolved while the scorers rate another university 90
C11_Witness ==
  /\ Done("_find_best_uni_match")
  /\ args.raw_entry = Str(PUC)
  /\ args.hot[1] = <<90, 89>>
  /\ ret.label = "Pontificia Universidad Católica de Chile"
  /\ ret.stages = <<"alias">>

\* a civil-status cell that none of the conditions matches
Unmatched(v) ==
  \A c \in DOMAIN conditions : ~str_contains(normalize_string(v), c)

\* C12: every standardizer returns as many rows as it got and no row of a
\* *_clean column is left missing: a row that matched nothing holds the
\* sentinel category.
C12_SentinelNeverMissing ==
  pc = "done" =>
    /\ fn = "standardize_education" =>
         /\ Len(ret.clean) = Len(args.column)
         /\ \A i \in DOMAIN ret.clean : ~ret.clean[i].na
         /\ args.has_nivel =>
              /\ Len(ret.nivel_clean) = Len(args.column)
              /\ \A i \in DOMAIN ret.nivel_clean : ~ret.nivel_clean[i].na
    /\ fn = "standardize_career" =>
         /\ Len(ret.clean_1) = Len(args.column)
         /\ \A i \in DOMAIN ret.clean_1 : ~ret.clean_1[i].na
    /\ fn = "standardize_civil_status" =>
         /\ ~ret.raised
         /\ Len(ret.clean) = Len(args.column)
         /\ \A i \in DOMAIN ret.clean :
              /\ ~ret.clean[i].na
              /\ Unmatched(args.column[i]) => ret.clean[i].value = "Desconocido"

\* C13: every variant stored in UNI_MAP is in normalised form.
C13_VariantsNormalized ==
  (Done("reverse_map") /\ args = UNI_MAP) =>
    \A v \in DOMAIN ret.reverse_map : normalize_string(Str(v)) = v

\* the canonical labels of table t that list a variant normalising to n
Claimants(t, n) ==
  {t[i].canonical :
     i \in {k \in DOMAIN t :
              \E j \in DOMAIN t[k].variants :
                normalize_string(Str(t[k].variants[j])) = n}}

\* the normalised variants of table t that two labels claim
Collisions(t) ==
  {n \in {normalize_string(Str(v)) : v \in Variants(t)} :
     Cardinality(Claimants(t, n)) > 1}

FirstListing(uni_map, v) ==
  CHOOSE i \in DOMAIN uni_map :
    /\ v \in Range(uni_map[i].variants)
    /\ \A k \in 1..(i - 1) : v \notin Range(uni_map[k].variants)

\* C15: no normalised variant of UNI_MAP is listed under two canonical
\* labels, and the inverted map is the same when the entries are visited in
\* the opposite order (the first listing of a variant kept, not the last).
C15_NoSharedVariant ==
  (Done("reverse_map") /\ args = UNI_MAP) =>
    /\ Collisions(args) = {}
    /\ \A v \in DOMAIN ret.reverse_map :
         ret.reverse_map[v] = args[FirstListing(args, v)].canonical

\* the inverted map of UNI_MAP is built, with 'puc' in it
C15_Witness ==
  /\ Done("reverse_map")
  /\ args = UNI_MAP
  /\ <<"p", "u", "c">> \in DOMAIN ret.reverse_map
  /\ Cardinality(DOMAIN ret.reverse_map) > Len(UNI_MAP)

\* C16: find_dependencia_fast takes a row of greatest similarity; at or above
\* the threshold it returns that row's label, the similarity times 100 and
\* that same row's dependency code, below it (None, similarity times 100,
\* None); a query that is no str or is blank gives (None, 0, None) and
\* nothing is encoded.
C16_BestRowAndItsCode ==
  Done("find_dependencia_fast") =>
    IF ~args.nombre_query.isStr \/ strip(args.nombre_query.s) = <<>>
    THEN /\ ret.label = None /\ ret.score = 0 /\ ret.extra = None
         /\ ret.stages = <<>>
    ELSE \E i \in DOMAIN args.cosine_scores :
           /\ \A j \in DOMAIN args.cosine_scores :
                args.cosine_scores[j] <= args.cosine_scores[i]
           /\ ret.score = args.cosine_scores[i] * 100
           /\ IF args.cosine_scores[i] >= args.threshold
              THEN /\ ret.label = args.mineduc_df[i].colegio_merge_key
                   /\ ret.extra = args.mineduc_df[i].COD_DEPE
              ELSE ret.label = None /\ ret.extra = None

\* the second of three rows is the most similar one, at 0.66
C16_Witness ==
  /\ Done("find_dependencia_fast")
  /\ Len(args.mineduc_df) >= 3
  /\ args.cosine_scores[1] = 64 /\ args.cosine_scores[2] = 66
  /\ ret.label = "c2" /\ ret.score = 6600 /\ ret.extra = 2

\* C17: normalize_string of a value that is no str returns the empty string.
C17_NonStringIsEmpty ==
  (fn = "normalize_string" /\ pc \in {"done", "again"} /\ ~args.isStr)
    => ret.out = <<>>

\* NaN normalised: the result is "" and not the text 'nan'
C17_Witness ==
  /\ Done("normalize_string")
  /\ args = [isStr |-> FALSE, s |-> <<"n", "a", "n">>]
  /\ ret.out = <<>>

\* C18: the query "Pérez, Juan A." against the choices "Juan Pérez" and
\* "Ana Pérez" with threshold 70 returns "Juan Pérez" with a score of 70 or
\* more.
C18_PerezExample ==
  (/\ Done("find_best_match_bcn")
   /\ args.nombre_query = Str(perez_juan_a)
   /\ args.lista_choices = <<"Juan Pérez", "Ana Pérez">>
   /\ args.threshold = 70)
    => ret.label = "Juan Pérez" /\ ret.score >= 70

\* the example resolved although the first pass ranks "Ana Pérez" first
C18_Witness ==
  /\ Done("find_best_match_bcn")
  /\ args.nombre_query = Str(perez_juan_a)
  /\ args.paso1 = <<69, 83>>
  /\ args.paso2[1] = 100 /\ args.paso2[2] = 99
  /\ ret.label = "Juan Pérez"

\* the vote value the claim expects for a row: 'OpcionVoto.Valor' when the
\* chunk has that column, else 'OpcionVoto._value_1'
Consolidated(r) == IF args.has_Valor THEN r.Valor ELSE r.value_1

\* C19: every 'Proyecto de Ley' row with a vote value in the column the
\* chunk carries, and with its keys, is in the result with that value as
\* voto_valor; so it is for a chunk that has only 'OpcionVoto._value_1'.
C19_VoteValueConsolidated ==
  (Done("process_votaciones_chunk") /\ (args.has_Valor \/ args.has_value_1)) =>
    \A i \in DOMAIN args.rows :
      (/\ IsProyectoDeLey(args.rows[i].Tipo)
       /\ ~Consolidated(args.rows[i]).na
       /\ ~args.rows[i].Id.na)
        => \E j \in DOMAIN ret.df_clean :
             /\ ret.df_clean[j].votacion_id = args.rows[i].Id
             /\ ret.df_clean[j].voto_valor = Consolidated(args.rows[i])

\* a page of the range that ends the listing: its request fails or it has
\* no items
Stops(n) == ~args.server[n].ok \/ args.server[n].items = 0

\* the pages the claim expects to be requested: from pagina_inicial up to the
\* first page that stops the listing, or up to pagina_final
ExpectedPages ==
  {n \in args.pagina_inicial..args.pagina_final :
     \A m \in args.pagina_inicial..(n - 1) : ~Stops(m)}

RECURSIVE Ascending(_)
Ascending(pages) ==
  IF pages = {} THEN <<>>
  ELSE LET n == CHOOSE x \in pages : \A y \in pages : x <= y
       IN <<n>> \o Ascending(pages \ {n})

\* C20: scrape_bcn_list requests the pages from pagina_inicial on in
\* increasing order, stops at the first page without items or at the first
\* network error, and returns the items of every page fetched before that,
\* each tagged with its page number.
C20_PagesInOrderUntilStop ==
  Done("scrape_bcn_list") =>
    /\ ret.raised = None
    /\ ret.requested = Ascending(ExpectedPages)
    /\ ret.data = [k \in 1..Cardinality({n \in ExpectedPages : ~Stops(n)}) |->
                     [pagina |-> Ascending({n \in ExpectedPages : ~Stops(n)})[k]]]

\* the lowercased birthplace names the k-th listed country
NamesCountry(raw, k) == Contains(lower(raw.s), PAISES_LIST[k])

\* the k-th listed country as a label, with or without its accents
CountryLabels(k) ==
  {capitalize(PAISES_LIST[k]), capitalize(DropMn(NFD(PAISES_LIST[k])))}

\* C21: standardize_location sets pais_nac to the country the birthplace
\* names whenever it names one of the listed countries, and to 'Chile' only
\* when it names none of them.
C21_CountryNamedIsCountrySet ==
  Done("standardize_location") =>
    \A i \in DOMAIN args.loc_series :
      LET raw == args.loc_series[i]
          named == {k \in DOMAIN PAISES_LIST : NamesCountry(raw, k)}
      IN raw.isStr =>
           /\ named # {} => \E k \in named : ret.rows[i].pais_nac \in CountryLabels(k)
           /\ ret.rows[i].pais_nac = Chile => named = {}

\* the votes whose detail was fetched, as (year, vote) pairs
FetchedVotes ==
  {<<y, k>> \in (1..MaxYears) \X (1..MaxDetalles) :
     /\ args.star_year <= y /\ y < args.end_year
     /\ args.server[y].kind = "votes"
     /\ k \in DOMAIN args.server[y].votes
     /\ args.server[y].votes[k] = "ok"}

\* C22: build_detalle_periodo skips a vote detail or a year's vote list that
\* fails, still processes the remaining votes and years in order, and
\* returns a table (possibly empty) for every period, also when every year
\* fails or has no votes.
C22_PartialFailureTolerated ==
  (Done("build_detalle_periodo") /\ args.client_ok) =>
    /\ ret.raised = None
    /\ {<<r.year, r.idx>> : r \in Range(ret.table)} = FetchedVotes
    /\ \A i, j \in DOMAIN ret.table :
         i < j => \/ ret.table[i].year < ret.table[j].year
                  \/ /\ ret.table[i].year = ret.table[j].year
                     /\ ret.table[i].idx < ret.table[j].idx

\* the terms of a raw career value that some pattern of the table matches
MatchedTerms(terms) ==
  {k \in DOMAIN terms :
     terms[k] # <<>> /\ \E c \in DOMAIN CAREER_MAP_REGEX :
                          re_search(CAREER_MAP_REGEX[c], terms[k])}

\* the category of a matched term: no earlier row of the table matches it
CategoryOf(term) ==
  CAREER_MAP_REGEX[CHOOSE c \in DOMAIN CAREER_MAP_REGEX :
                     /\ re_search(CAREER_MAP_REGEX[c], term)
                     /\ \A d \in 1..(c - 1) : ~re_search(CAREER_MAP_REGEX[d], term)]

\* the first term of the value that has the category
FirstTermOf(terms, category) ==
  CHOOSE k \in MatchedTerms(terms) :
    /\ CategoryOf(terms[k]) = category
    /\ \A j \in MatchedTerms(terms) : CategoryOf(terms[j]) = category => k <= j

\* C23: standardize_career gives each term the first category in table order
\* whose pattern matches it, lists the categories without duplicates in
\* order of first occurrence, sets carrera_clean_1 to the first category or
\* 'Desconocida' when no term matched, and carrera_clean_2 to the second
\* category or None.
C23_CategoriesInTableOrder ==
  Done("standardize_career") =>
    \A i \in DOMAIN args.column :
      LET terms == clean_raw_career(args.column[i])
          hits == MatchedTerms(terms)
          list == ret.clean[i].value
      IN /\ ~ret.clean[i].na
         /\ hits = {} =>
              /\ list = <<"Desconocida">>
              /\ ret.clean_1[i] = Cell("Desconocida")
              /\ ret.clean_2[i].na
         /\ hits # {} =>
              /\ Range(list) = {CategoryOf(terms[k]) : k \in hits}
              /\ \A a, b \in DOMAIN list :
                   a < b => FirstTermOf(terms, list[a]) < FirstTermOf(terms, list[b])
              /\ ret.clean_1[i] = Cell(list[1])
              /\ ret.clean_2[i] = IF Len(list) > 1 THEN Cell(list[2]) ELSE NaN

\* a value with a repeated category and a term that two patterns match has
\* been standardized into two categories
C23_Witness ==
  /\ Done("standardize_career")
  /\ \E i \in DOMAIN args.column :
       LET terms == clean_raw_career(args.column[i])
       IN /\ \E j, k \in MatchedTerms(terms) :
               j < k /\ CategoryOf(terms[j]) = CategoryOf(terms[k])
          /\ \E k \in MatchedTerms(terms) :
               Cardinality({c \in DOMAIN CAREER_MAP_REGEX :
                              re_search(CAREER_MAP_REGEX[c], terms[k])}) > 1
          /\ ret.clean_2[i] = Cell("Arte / Actuación")

\* C24: create_age_features gives every integer age exactly one
\* rango_etario: 18..29 '18-29' (18 included), 30..39 '30-39', 40..49
\* '40-49', 50..59 '50-59', 60..69 '60-69', 70..110 '70+', and a missing age
\* or an age outside 18..110 'Desconocido'.
C24_AgeRanges ==
  Done("create_age_features") =>
    LET edad == ret.edad.value
    IN ret.rango_etario =
         IF ret.edad.na THEN "Desconocido"
         ELSE IF edad \in 18..29 THEN "18-29"
         ELSE IF edad \in 30..39 THEN "30-39"
         ELSE IF edad \in 40..49 THEN "40-49"
         ELSE IF edad \in 50..59 THEN "50-59"
         ELSE IF edad \in 60..69 THEN "60-69"
         ELSE IF edad \in 70..110 THEN "70+"
         ELSE "Desconocido"

\* a deputy aged 18 at the start of the period has been put in '18-29'
C24_Witness ==
  /\ Done("create_age_features")
  /\ ret.edad = Cell(18)
  /\ ret.rango_etario = "18-29"

\* the inputs for which the model is not to be asked
BioGuard ==
  \/ ~args.client
  \/ ~args.texto_biografia.isStr
  \/ args.texto_biografia.stripped < 50

\* at most the first 4000 characters of the text were sent
SentPrefix ==
  /\ ret.called
  /\ ret.sent <= 4000
  /\ ret.sent = IF args.texto_biografia.len < 4000
                THEN args.texto_biografia.len ELSE 4000

ValidCells ==
  {k \in DOMAIN args.cells :
     /\ periodo_encontrado(args.cells[k].texto_cargo) # None
     /\ \E p \in DOMAIN args.periodos_validos :
          args.periodos_validos[p] = periodo_encontrado(args.cells[k].texto_cargo)
     /\ \/ args.cells[k].span > 0
        \/ \E d \in DOMAIN args.cells[k].divs :
             args.cells[k].divs[d].Distrito /\ args.cells[k].divs[d].num > 0}

\* C26: _extract_district_from_trajectory returns the district of the first
\* cell in document order whose period is in periodos_validos and that
\* carries a district, never one of a cell with another period, and None
\* when there is no such cell.
C26_DistrictOnlyFromValidPeriod ==
  Done("_extract_district_from_trajectory") =>
    IF ValidCells = {} THEN ret.distrito.na
    ELSE \E k \in ValidCells :
           /\ \A j \in ValidCells : k <= j
           /\ ~ret.distrito.na
           /\ ret.distrito.value \in {args.cells[k].span} \cup
                {args.cells[k].divs[d].num : d \in DOMAIN args.cells[k].divs}
           /\ ret.distrito.value > 0

\* the first cell carries a district under a period that is not valid, the
\* second one under a valid period, and the second one's district came back
C26_Witness ==
  /\ Done("_extract_district_from_trajectory")
  /\ ValidCells = {2}
  /\ args.cells[1].span = 7 /\ periodo_encontrado(args.cells[1].texto_cargo) # None
  /\ args.cells[2].span = 0
  /\ ret.distrito = Cell(10)

\* C27: for every vote whose description has a bulletin reference of the
\* form 'Boletín N° <digits>-<digits>', the identifier build_boletines_periodo
\* takes from the description to fetch the bulletin is the same string as
\* the boletin_id process_votaciones_chunk gives the vote row.
C27_SameBulletinIdentifier ==
  Done("build_boletines_periodo") =>
    \A j \in DOMAIN ret.df_clean :
      ~ret.df_clean[j].boletin_id.na =>
        InSeq(ret.df_clean[j].boletin_id.value, ret.boletines.boletines)

\* C28: whatever the query, the choices and the threshold, also a threshold
\* of 0 or below, find_best_match_bcn returns a label with every score that
\* reaches the threshold: the label None comes only with a score below the
\* threshold or from the guard against empty input.
C28_ScoreAtThresholdHasLabel ==
  (Done("find_best_match_bcn") /\ ret.stages # <<>>) =>
    (ret.score >= args.threshold => ret.label # None)

====
